---- MODULE Spec2Model ----
(***************************************************************************)
(* A state-machine model of rcmp's comparison engine                       *)
(* (src/rcmp/__init__.py): the Item registry, the comparator chain driven  *)
(* by Comparison.cmp, and the aggregators (Box.cmp and its outer and inner *)
(* joins, Encoder.cmp) that recurse into directories and archives.         *)
(*                                                                         *)
(* Bytes on disk are modelled structurally: a file's content is a record   *)
(* naming its format (the magic the comparators test for), its payload     *)
(* and, for an archive, its members.  Extended path names are sequences of *)
(* segments in which the separators ("/", "{ar}", "{tar}", ...) are        *)
(* segments of their own, so that join and split are real operations.      *)
(***************************************************************************)
EXTENDS Integers, Sequences, FiniteSets, TLC

(***************************************************************************)
(* Results.  A comparator returns Same, Different or a non-true value; a   *)
(* call may also end by raising.                                           *)
(***************************************************************************)
Same == "Same"

Different == "Different"

Falsy == "False"

IndeterminateResult == "IndeterminateResult"

SystemExit == "SystemExit"

Fault == "Fault"

NoRet == "none"

Verdicts == {Same, Different}

Raised == {IndeterminateResult, SystemExit, Fault}

(***************************************************************************)
(* File contents.                                                          *)
(*   fmt     "raw" | "ar" | "cpio" | "tar" | "zip" | "gzip"                *)
(*   data    payload bytes of a raw file                                   *)
(*   ents    members of an archive, in archive order: [k, v]               *)
(*   stamp   bytes that carry no meaning (time stamps of the container)    *)
(*   comment the archive comment of a zip file                             *)
(*   bad     the archive is damaged behind its magic: a member of a zip    *)
(*           file fails its checksum, a header of an ar file is cut short  *)
(* A member v is [mode, uid, gid, kind, link, c] with c its content.       *)
(***************************************************************************)
RawC(d) ==
    [fmt |-> "raw", data |-> d, ents |-> <<>>, stamp |-> 0, comment |-> 0, bad |-> FALSE]

ArchC(f, es, st, cm) ==
    [fmt |-> f, data |-> <<>>, ents |-> es, stamp |-> st, comment |-> cm, bad |-> FALSE]

Damaged(cc) == [cc EXCEPT !.bad = TRUE]

Member(md, u, kd, ln, cc) == [mode |-> md, uid |-> u, gid |-> 0, kind |-> kd, link |-> ln, c |-> cc]

RegMember(cc) == Member(0, 0, "reg", "", cc)

Ent(key, val) == [k |-> key, v |-> val]

GzipContentName == "{gzipcontent}"

GzipC(inner, st) == ArchC("gzip", <<Ent(GzipContentName, RegMember(inner))>>, st, 0)

(***************************************************************************)
(* File-system nodes.                                                      *)
(*   t     "reg" | "dir" | "lnk" | "absent"                                *)
(*   c     content of a regular file                                       *)
(*   link  target string of a symbolic link; a link to a directory names   *)
(*         a top-level path                                                *)
(*   res   what a symbolic link resolves to: "none" | "reg" | "dir"        *)
(*   ents  directory entries in os.listdir order: [k, v]                   *)
(***************************************************************************)
RegNode(cc) == [t |-> "reg", c |-> cc, link |-> "", res |-> "none", ents |-> <<>>]

LnkNode(ln, rs) == [t |-> "lnk", c |-> RawC(<<>>), link |-> ln, res |-> rs, ents |-> <<>>]

DirNode(es) == [t |-> "dir", c |-> RawC(<<>>), link |-> "", res |-> "none", ents |-> es]

AbsentNode == [t |-> "absent", c |-> RawC(<<>>), link |-> "", res |-> "none", ents |-> <<>>]

(* what reading through a symbolic link that resolves to a file yields *)
LinkedContent == RawC(<<1>>)

KeysOf(es) == [i \in 1..Len(es) |-> es[i].k]

HasKey(es, key) == \E i \in 1..Len(es) : es[i].k = key

Lookup(es, key) == es[CHOOSE i \in 1..Len(es) : es[i].k = key].v

RECURSIVE SizeOf(_)
(* number of bytes of a content: one per payload byte, one per header *)
SizeOf(cc) ==
    IF cc.fmt = "raw" THEN Len(cc.data)
    ELSE LET RECURSIVE Sum(_)
             Sum(i) == IF i > Len(cc.ents) THEN 0
                       ELSE 1 + SizeOf(cc.ents[i].v.c) + Sum(i + 1)
         IN 1 + Sum(1)

(***************************************************************************)
(* Extended path names and the packers.                                    *)
(***************************************************************************)
Boxes == {"Dir", "Ar", "Cpio", "Tar", "Zip", "Gzip"}

ArchiveBoxes == {"Ar", "Cpio", "Tar", "Zip"}

ContentOnlyBoxes == {"Ar", "Zip", "Gzip"}

(* the joiner of each box's _packer *)
Joiner(box) ==
    CASE box = "Dir" -> "/"
      [] box = "Ar" -> "{ar}"
      [] box = "Cpio" -> "{cpio}"
      [] box = "Tar" -> "{tar}"
      [] box = "Zip" -> "{zip}"
      [] box = "Gzip" -> "{gzip}"

(* _Packer.join *)
Join(box, left, right) == left \o <<Joiner(box), right>>

(* the position of the last occurrence of segment jn in name, 0 for none *)
LastIndex(name, jn) ==
    IF \E i \in 1..Len(name) : name[i] = jn
    THEN CHOOSE i \in 1..Len(name) :
            name[i] = jn /\ \A j \in 1..Len(name) : name[j] = jn => j <= i
    ELSE 0

(* _Packer.split(name)[-1]: what follows the last occurrence of the joiner *)
LastPart(box, name) == SubSeq(name, LastIndex(name, Joiner(box)) + 1, Len(name))

(***************************************************************************)
(* The ignore matcher.  A pattern is a sequence of segments in which "*"   *)
(* matches any run of segments (fnmatch's * crosses separators); the match *)
(* is anchored at both ends, as fnmatch.translate anchors its regexp.      *)
(***************************************************************************)
RECURSIVE GlobMatch(_, _)
GlobMatch(pat, name) ==
    IF pat = <<>> THEN name = <<>>
    ELSE IF Head(pat) = "*"
         THEN \E n \in 0..Len(name) : GlobMatch(Tail(pat), SubSeq(name, n + 1, Len(name)))
         ELSE /\ name # <<>>
              /\ Head(name) = Head(pat)
              /\ GlobMatch(Tail(pat), Tail(name))

(* ignoring(ignores, fname): index of the first matching pattern, 0 for False *)
ignoring(ignores, fname) ==
    LET hits == {i \in 1..Len(ignores) : GlobMatch(ignores[i], fname)}
    IN IF hits = {} THEN 0 ELSE CHOOSE i \in hits : \A j \in hits : i <= j

(***************************************************************************)
(* Items.  The heap holds every Item object ever constructed; the registry *)
(* (Items._content) maps an extended name to the Item interned for it.     *)
(*   name     extended name                                                *)
(*   parent   heap index of the enclosing Item (the root is its own)       *)
(*   box      Item._box                                                    *)
(*   content  Item._content: <<>> for False, <<c>> once materialized       *)
(*   session  the archive handle attached by an aggregator's cmp:          *)
(*            <<>> for none, <<c>> for a handle opened on content c        *)
(*   read_count  Item._read_count: how often member_content was called to  *)
(*            fill _content                                                *)
(*   maps     how often DirComparator.member_mmap mapped the Item's file   *)
(***************************************************************************)
RootId == 1

NewItem(nm, par, bx) ==
    [name |-> nm, parent |-> par, box |-> bx, content |-> <<>>, session |-> <<>>,
     read_count |-> 0, maps |-> 0]

root == NewItem(<<"{root}">>, RootId, "Dir")

(* the outcome of a call that reads: a value, or a raise *)
Ok(val) == [ok |-> TRUE, v |-> val]

Raise(val) == [ok |-> FALSE, v |-> val]

(* the outcome of a call that may also write to an Item: the heap it leaves *)
Out(val, hp) == [ok |-> TRUE, v |-> val, h |-> hp]

Fails(val, hp) == [ok |-> FALSE, v |-> val, h |-> hp]

On(res, hp) == [ok |-> res.ok, v |-> res.v, h |-> hp]

NoContent == RawC(<<>>)

NoMember == RegMember(NoContent)

(* the element of a set of one: an operator that is given its arguments *)
(* through such a set evaluates each of them once                       *)
Only(S) == CHOOSE x \in S : TRUE

(* the node the operating system reaches when it follows node: the *)
(* directory a link to a directory leads to, else the node itself   *)
Through(fsys, node) ==
    IF node.t = "lnk" /\ node.res = "dir" /\ node.link \in DOMAIN fsys
    THEN fsys[node.link]
    ELSE node

(* the file-system node a path names; AbsentNode when there is none.  A  *)
(* link in the path is followed, except as the last component (os.lstat) *)
RECURSIVE Walk(_, _, _, _)
Walk(fsys, node, name, i) ==
    IF i > Len(name) THEN node
    ELSE IF /\ i + 1 <= Len(name)
            /\ name[i] = "/"
            /\ Through(fsys, node).t = "dir"
            /\ HasKey(Through(fsys, node).ents, name[i + 1])
         THEN Walk(fsys, Lookup(Through(fsys, node).ents, name[i + 1]), name, i + 2)
         ELSE AbsentNode

FsNode(fsys, name) ==
    IF name # <<>> /\ name[1] \in DOMAIN fsys THEN Walk(fsys, fsys[name[1]], name, 2)
    ELSE AbsentNode

ParentBox(h, i) == h[h[i].parent].box

(* Item.shortname: split by the Item's own box *)
shortname(h, i) == LastPart(h[i].box, h[i].name)

DirKeys(n) == IF n.t = "dir" THEN Ok(KeysOf(n.ents)) ELSE Raise(<<>>)

SessionKeys(ss) == IF ss = <<>> THEN Raise(<<>>) ELSE Ok(KeysOf(ss[1].ents))

(* box_keys of container item j as box bx sees it *)
box_keys(fsys, h, j, bx) ==
    CASE bx = "Dir" -> DirKeys(Through(fsys, FsNode(fsys, h[j].name)))
      [] bx \in ArchiveBoxes -> SessionKeys(h[j].session)
      [] bx = "Gzip" -> Ok(<<GzipContentName>>)

InKeys(sn, keys) == \E x \in 1..Len(keys) : sn = <<keys[x]>>

Contains(ks, sn) == IF ks.ok THEN Ok(InKeys(sn, ks.v)) ELSE Raise(FALSE)

MemberOf(ss, sn) ==
    IF ss = <<>> \/ Len(sn) # 1 THEN Raise(NoMember)
    ELSE IF HasKey(ss[1].ents, sn[1]) THEN Ok(Lookup(ss[1].ents, sn[1]))
    ELSE Raise(NoMember)

(* the archive member record an Item of an archive names, through the *)
(* handle attached to its parent *)
getmember(h, i) == MemberOf(h[h[i].parent].session, shortname(h, i))

StatOf(n) == IF n.t = "absent" THEN Raise(n) ELSE Ok(n)

(* os.lstat: faults on a path that does not exist *)
member_stat(fsys, h, i) == StatOf(FsNode(fsys, h[i].name))

(* os.path.exists follows symbolic links *)
Resolves(n) == n.t \in {"reg", "dir"} \/ (n.t = "lnk" /\ n.res # "none")

(* Item.exists *)
member_exists(fsys, h, i) ==
    IF ParentBox(h, i) = "Dir" THEN Ok(Resolves(FsNode(fsys, h[i].name)))
    ELSE Contains(box_keys(fsys, h, h[i].parent, ParentBox(h, i)), shortname(h, i))

NodeIs(s, kd) == IF s.ok THEN Ok(s.v.t = kd) ELSE Raise(FALSE)

MemberIs(m, kd) == IF m.ok THEN Ok(m.v.kind = kd) ELSE Raise(FALSE)

(* Item.isreg *)
member_isreg(fsys, h, i) ==
    CASE ParentBox(h, i) = "Dir" -> NodeIs(member_stat(fsys, h, i), "reg")
      [] ParentBox(h, i) \in ContentOnlyBoxes -> Ok(TRUE)
      [] OTHER -> MemberIs(getmember(h, i), "reg")

(* an isdir that asks os.stat, which follows symbolic links *)
IsdirFollowsLinks(fsys, h, i) ==
    IF ParentBox(h, i) = "Dir"
    THEN NodeIs(StatOf(Through(fsys, FsNode(fsys, h[i].name))), "dir")
    ELSE Ok(FALSE)

(* Item.isdir *)
member_isdir(fsys, h, i) ==
    IF ParentBox(h, i) = "Dir" THEN NodeIs(member_stat(fsys, h, i), "dir") ELSE Ok(FALSE)

(* Item.islnk *)
member_islnk(fsys, h, i) ==
    CASE ParentBox(h, i) = "Dir" -> NodeIs(member_stat(fsys, h, i), "lnk")
      [] ParentBox(h, i) \in ContentOnlyBoxes -> Ok(FALSE)
      [] OTHER -> MemberIs(getmember(h, i), "lnk")

ReadNode(n) ==
    IF n.t = "reg" THEN Ok(n.c)
    ELSE IF n.t = "lnk" /\ n.res = "reg" THEN Ok(LinkedContent)
    ELSE Raise(NoContent)

Decoded(pc) ==
    IF pc.ok /\ pc.v.fmt = "gzip" THEN Ok(pc.v.ents[1].v.c) ELSE Raise(NoContent)

PayloadOf(m) == IF m.ok THEN Ok(m.v.c) ELSE Raise(NoContent)

(* box.member_content(item): what the parent's box reads for the Item; a *)
(* decoder reads the parent's content                                   *)
RECURSIVE member_content(_, _, _)
member_content(fsys0, h0, i0) ==
    Only({(
        IF h[i].content # <<>> THEN Ok(h[i].content[1])
        ELSE CASE ParentBox(h, i) = "Dir" -> ReadNode(FsNode(fsys, h[i].name))
               [] ParentBox(h, i) = "Gzip" -> Decoded(member_content(fsys, h, h[i].parent))
               [] OTHER -> PayloadOf(getmember(h, i))) : fsys \in {fsys0}, h \in {h0}, i \in {i0}})

(* if self._content is False: self._content = ...; self._read_count += 1 *)
Cache(h0, i0, cc0) ==
    Only({(
        IF cc.ok /\ h[i].content = <<>>
        THEN [h EXCEPT ![i].content = <<cc.v>>, ![i].read_count = @ + 1]
        ELSE h) : h \in {h0}, i \in {i0}, cc \in {cc0}})

(* the heap after Item.content was read on item i: the payload is cached, *)
(* and so is the parent's when a decoder had to read it                    *)
RECURSIVE Materialize(_, _, _)
Materialize(fsys0, h0, i0) ==
    Only({(
        Cache(IF h[i].content = <<>> /\ ParentBox(h, i) = "Gzip"
              THEN Materialize(fsys, h, h[i].parent) ELSE h,
              i, member_content(fsys, h, i))) : fsys \in {fsys0}, h \in {h0}, i \in {i0}})

(* Item.content: the value read and the heap left *)
content(fsys0, h0, i0) ==
    Only({(On(member_content(fsys, h, i), Materialize(fsys, h, i))) : fsys \in {fsys0}, h \in {h0}, i \in {i0}})

SizeOfNode(s) == IF s.ok THEN Ok(IF s.v.t = "reg" THEN SizeOf(s.v.c) ELSE 1) ELSE Raise(0)

SizeOfContent(cc) == IF cc.ok THEN Ok(SizeOf(cc.v)) ELSE Raise(0)

(* Item.size; a decoder's member has to be decoded to be measured *)
size(fsys0, h0, i0) ==
    Only({(
        CASE ParentBox(h, i) = "Dir" -> On(SizeOfNode(member_stat(fsys, h, i)), h)
          [] ParentBox(h, i) = "Gzip" -> On(SizeOfContent(member_content(fsys, h, i)),
                                            Materialize(fsys, h, i))
          [] OTHER -> On(SizeOfContent(PayloadOf(getmember(h, i))), h)) : fsys \in {fsys0}, h \in {h0}, i \in {i0}})

LinkOfNode(n) == IF n.t = "lnk" THEN Ok(n.link) ELSE Raise("")

LinkOfMember(m) == IF m.ok THEN Ok(m.v.link) ELSE Raise("")

(* Item.link *)
member_link(fsys, h, i) ==
    CASE ParentBox(h, i) = "Dir" -> LinkOfNode(FsNode(fsys, h[i].name))
      [] ParentBox(h, i) = "Tar" -> LinkOfMember(getmember(h, i))
      [] OTHER -> Raise("")

InodeOf(s, nm) == IF s.ok THEN Ok(nm) ELSE Raise(<<>>)

(* Item.inode and Item.device together, routed to the Item's own box.  The *)
(* file system has no hard links: a file's identity is its path.           *)
member_inode(fsys, h, i) ==
    IF h[i].box = "Dir" THEN InodeOf(member_stat(fsys, h, i), h[i].name) ELSE Raise(<<>>)

(* two calls in a row, the second on the heap the first left *)
Pack(r10, r20) ==
    Only({(
        [ok1 |-> r1.ok, v1 |-> r1.v, h1 |-> r1.h,
         ok2 |-> r2.ok, v2 |-> r2.v, h |-> r2.h]) : r1 \in {r10}, r2 \in {r20}})

ContentThen(r10, fsys, i) ==
    Only({(Pack(r1, content(fsys, r1.h, i))) : r1 \in {r10}})

(* pair[0].content, then pair[1].content *)
contents(fsys0, h, pair0) ==
    Only({(ContentThen(content(fsys, h, pair[1]), fsys, pair[2])) : fsys \in {fsys0}, pair \in {pair0}})

SizeThen(r10, fsys, i) ==
    Only({(Pack(r1, size(fsys, r1.h, i))) : r1 \in {r10}})

(* pair[0].size, then pair[1].size *)
sizes(fsys0, h, pair0) ==
    Only({(SizeThen(size(fsys, h, pair[1]), fsys, pair[2])) : fsys \in {fsys0}, pair \in {pair0}})

(***************************************************************************)
(* The comparators.  A pair is <<left, right>> of heap indices.            *)
(***************************************************************************)
default_comparators ==
    << "NoSuchFile", "Inode", "EmptyFile", "Dir", "ArMemberMetadata", "Bitwise",
       "Symlink", "Elf", "Ar", "AM", "ConfigLog", "KernelConf", "BZ2", "Gzip", "Zip",
       "TarMemberMetadata", "Tar", "CpioMemberMetadata", "Cpio", "Map",
       "DateBlotBitwise", "Fail" >>

BoxComparators == {"Dir", "Ar", "Cpio", "Tar", "Zip"}

(* comparators whose _applies reads item.content *)
ContentSniffers == {"Elf", "Ar", "BZ2", "Gzip", "Zip", "Tar", "Cpio", "Map"}

(* the format a content-sniffing _applies recognises *)
MagicOf(cmpr) ==
    CASE cmpr = "Elf" -> "elf"
      [] cmpr = "Ar" -> "ar"
      [] cmpr = "BZ2" -> "bz2"
      [] cmpr = "Gzip" -> "gzip"
      [] cmpr = "Zip" -> "zip"
      [] cmpr = "Tar" -> "tar"
      [] cmpr = "Cpio" -> "cpio"
      [] cmpr = "Map" -> "map"

(* the basenames the text normalisers are gated on *)
GatedNames(cmpr) ==
    CASE cmpr = "AM" -> {"Makefile"}
      [] cmpr = "ConfigLog" -> {"config.log", "config.status", "config.h"}
      [] cmpr = "KernelConf" -> {"auto.conf", "autoconf.h"}

(* a test of the magic: a failed read propagates *)
Sniff(rd0, magic) ==
    Only({([ok |-> rd.ok, v |-> rd.ok /\ rd.v.fmt = magic, h |-> rd.h]) : rd \in {rd0}})

(* a trial open inside try/except: any failure answers False *)
Trial(rd0, magic) ==
    Only({([ok |-> TRUE, v |-> rd.ok /\ rd.v.fmt = magic, h |-> rd.h]) : rd \in {rd0}})

(* the trigger phrase occurs in no content of this model *)
Phrase(rd0) ==
    Only({([ok |-> rd.ok, v |-> FALSE, h |-> rd.h]) : rd \in {rd0}})

(* cls._applies(item) *)
_applies(cmpr0, fsys0, h0, i0) ==
    Only({(
        CASE cmpr \in {"NoSuchFile", "Fail"} -> Out(TRUE, h)
          [] cmpr = "Inode" -> Out(h[i].box = "Dir", h)
          [] cmpr \in {"EmptyFile", "Bitwise", "DateBlotBitwise"} -> On(member_isreg(fsys, h, i), h)
          [] cmpr = "Dir" -> On(member_isdir(fsys, h, i), h)
          [] cmpr = "Symlink" -> On(member_islnk(fsys, h, i), h)
          [] cmpr = "ArMemberMetadata" -> Out(ParentBox(h, i) = "Ar", h)
          [] cmpr = "TarMemberMetadata" -> Out(ParentBox(h, i) = "Tar", h)
          [] cmpr = "CpioMemberMetadata" -> Out(ParentBox(h, i) = "Cpio", h)
          [] cmpr \in {"Zip", "Tar"} -> Trial(content(fsys, h, i), MagicOf(cmpr))
          [] cmpr \in ContentSniffers \ {"Zip", "Tar"} -> Sniff(content(fsys, h, i), MagicOf(cmpr))
          [] cmpr \in {"AM", "ConfigLog", "KernelConf"} ->
                IF h[i].name[Len(h[i].name)] \in GatedNames(cmpr)
                THEN Phrase(content(fsys, h, i))
                ELSE Out(FALSE, h)) : cmpr \in {cmpr0}, fsys \in {fsys0}, h \in {h0}, i \in {i0}})

(* reduce(operator.iand, ...) over the two answers *)
Iand(a10, a20) ==
    Only({(
        IF ~a1.ok THEN [ok |-> FALSE, v |-> FALSE, h |-> a1.h, each |-> <<FALSE, FALSE>>]
        ELSE [ok |-> a2.ok, v |-> a2.ok /\ a1.v /\ a2.v, h |-> a2.h,
              each |-> <<a1.v, a2.ok /\ a2.v>>]) : a1 \in {a10}, a2 \in {a20}})

AppliesThen(a10, cmpr, fsys, i) ==
    Only({(Iand(a1, _applies(cmpr, fsys, a1.h, i))) : a1 \in {a10}})

(* Comparator.applies: _applies is evaluated on both items, then and-ed *)
applies(cmpr0, fsys0, h, pair0) ==
    Only({(
        AppliesThen(_applies(cmpr, fsys, h, pair[1]), cmpr, fsys, pair[2])) : cmpr \in {cmpr0}, fsys \in {fsys0}, pair \in {pair0}})

(* Item.reset on both items of a pair: Comparison.reset *)
ResetPair(h, pair) ==
    [i \in 1..Len(h) |-> IF i \in {pair[1], pair[2]} THEN [h[i] EXCEPT !.content = <<>>] ELSE h[i]]

(* a comparator that takes two paths for the same as soon as both exist *)
ExistLoose(fsys0, h0, pair0) ==
    Only({(
        IF member_exists(fsys, h, pair[1]).v # member_exists(fsys, h, pair[2]).v
        THEN Out(Different, h) ELSE Out(Same, h)) : fsys \in {fsys0}, h \in {h0}, pair \in {pair0}})

(* objects are different if either one is missing *)
ExistStrict(e10, e20, h0) ==
    Only({(
        IF ~(e1.ok /\ e2.ok) THEN Fails(Falsy, h)
        ELSE IF e1.v # e2.v \/ e1.v = FALSE THEN Out(Different, h)
        ELSE Out(Falsy, h)) : e1 \in {e10}, e2 \in {e20}, h \in {h0}})

Exist(e10, e20, h0) ==
    Only({(
        IF ~(e1.ok /\ e2.ok) THEN Fails(Falsy, h)
        ELSE IF e1.v # e2.v THEN Out(Different, h)
        ELSE IF e1.v = FALSE THEN Out(Same, h)
        ELSE Out(Falsy, h)) : e1 \in {e10}, e2 \in {e20}, h \in {h0}})

NoSuchFileCmp(fsys0, h0, pair0) ==
    Only({(
        Exist(member_exists(fsys, h, pair[1]), member_exists(fsys, h, pair[2]), h)) : fsys \in {fsys0}, h \in {h0}, pair \in {pair0}})

SameInode(i10, i20, h0) ==
    Only({(
        IF ~(i1.ok /\ i2.ok) THEN Fails(Falsy, h)
        ELSE IF i1.v = i2.v THEN Out(Same, h)
        ELSE Out(Falsy, h)) : i1 \in {i10}, i2 \in {i20}, h \in {h0}})

InodeCmp(fsys0, h0, pair0) ==
    Only({(
        SameInode(member_inode(fsys, h, pair[1]), member_inode(fsys, h, pair[2]), h)) : fsys \in {fsys0}, h \in {h0}, pair \in {pair0}})

(* the second size is only taken when the first is 0 *)
BothEmpty(s10, s20) ==
    Only({(
        IF ~s1.ok THEN Fails(Falsy, s1.h)
        ELSE IF s1.v # 0 THEN Out(Falsy, s1.h)
        ELSE IF ~s2.ok THEN Fails(Falsy, s2.h)
        ELSE IF s2.v = 0 THEN Out(Same, s2.h)
        ELSE Out(Falsy, s2.h)) : s1 \in {s10}, s2 \in {s20}})

EmptyThen(s10, fsys, i) ==
    Only({(BothEmpty(s1, size(fsys, s1.h, i))) : s1 \in {s10}})

EmptyFileCmp(fsys0, h, pair0) ==
    Only({(EmptyThen(size(fsys, h, pair[1]), fsys, pair[2])) : fsys \in {fsys0}, pair \in {pair0}})

(* bool(item._content): materialized and not the empty string *)
HasContent(h, i) == h[i].content # <<>> /\ SizeOf(h[i].content[1]) > 0

(* two distinct mmap objects compared with ==: Python 2 compares identities *)
MmapEqual(c1, c2) == FALSE

EqualContents(cc0, pair) ==
    Only({(
        IF ~cc.ok1 THEN Fails(Falsy, cc.h1)
        ELSE IF ~cc.ok2 THEN Fails(Falsy, cc.h)
        ELSE IF cc.v1 = cc.v2 THEN Out(Same, ResetPair(cc.h, pair))
        ELSE Out(Falsy, cc.h)) : cc \in {cc0}})

(* both files are opened and mapped, whatever is cached; when the maps *)
(* compare unequal their bytes are kept as the contents                *)
Mapped(h, pair) ==
    [i \in 1..Len(h) |-> IF i \in {pair[1], pair[2]} THEN [h[i] EXCEPT !.maps = @ + 1] ELSE h[i]]

EqualMaps(n10, n20, h0, pair0) ==
    Only({(
        IF n1.t # "reg" \/ n2.t # "reg" \/ SizeOf(n1.c) = 0 THEN Fails(Falsy, h)
        ELSE IF MmapEqual(n1.c, n2.c) THEN Out(Same, Mapped(h, pair))
        ELSE Out(Falsy, [Mapped(h, pair) EXCEPT ![pair[1]].content = <<n1.c>>,
                                                ![pair[2]].content = <<n2.c>>])) : n1 \in {n10}, n2 \in {n20}, h \in {h0}, pair \in {pair0}})

BitwiseSized(ss0, fsys0, pair0) ==
    Only({(
        IF ~(ss.ok1 /\ ss.ok2) THEN Fails(Falsy, ss.h)
        ELSE IF ss.v1 # ss.v2 THEN Out(Falsy, ss.h)
        ELSE IF \/ HasContent(ss.h, pair[1]) = HasContent(ss.h, pair[2])
                \/ ParentBox(ss.h, pair[1]) # "Dir"
             THEN EqualContents(contents(fsys, ss.h, pair), pair)
             ELSE EqualMaps(FsNode(fsys, ss.h[pair[1]].name), FsNode(fsys, ss.h[pair[2]].name),
                            ss.h, pair)) : ss \in {ss0}, fsys \in {fsys0}, pair \in {pair0}})

BitwiseCmp(fsys0, h, pair0) ==
    Only({(BitwiseSized(sizes(fsys, h, pair), fsys, pair)) : fsys \in {fsys0}, pair \in {pair0}})

(* date_blot: every rendering of a date becomes the same placeholder.  In  *)
(* payload bytes 8 and 9 stand for two renderings of a date, 0 for the     *)
(* placeholder.                                                            *)
date_blot(cc) ==
    IF cc.fmt = "raw"
    THEN [cc EXCEPT !.data = [x \in 1..Len(cc.data) |-> IF cc.data[x] \in {8, 9} THEN 0 ELSE cc.data[x]]]
    ELSE cc

EqualBlotted(cc0) ==
    Only({(
        IF ~cc.ok1 THEN Fails(Falsy, cc.h1)
        ELSE IF ~cc.ok2 THEN Fails(Falsy, cc.h)
        ELSE IF date_blot(cc.v1) = date_blot(cc.v2) THEN Out(Same, cc.h)
        ELSE Out(Falsy, cc.h)) : cc \in {cc0}})

DateBlotBitwiseCmp(fsys, h, pair) == EqualBlotted(contents(fsys, h, pair))

SameLink(l10, l20, h0) ==
    Only({(
        IF ~(l1.ok /\ l2.ok) THEN Fails(Falsy, h)
        ELSE IF l1.v = l2.v THEN Out(Same, h)
        ELSE Out(Different, h)) : l1 \in {l10}, l2 \in {l20}, h \in {h0}})

SymlinkCmp(fsys0, h0, pair0) ==
    Only({(
        SameLink(member_link(fsys, h, pair[1]), member_link(fsys, h, pair[2]), h)) : fsys \in {fsys0}, h \in {h0}, pair \in {pair0}})

Diffed(cc0) ==
    Only({(
        IF ~cc.ok1 THEN Fails(Falsy, cc.h1)
        ELSE IF ~cc.ok2 THEN Fails(Falsy, cc.h)
        ELSE Out(Different, cc.h)) : cc \in {cc0}})

(* FailComparator.cmp logs a unified diff of both contents, then answers *)
FailCmp(fsys, h, pair) == Diffed(contents(fsys, h, pair))

SameOwner(left, right) == left.uid = right.uid /\ left.gid = right.gid

ArHeaders(left0, right0, ignore_ownerships, h0) ==
    Only({(
        IF ~(left.ok /\ right.ok) THEN Fails(Falsy, h)
        ELSE IF /\ (ignore_ownerships \/ SameOwner(left.v, right.v))
                /\ left.v.mode = right.v.mode
             THEN Out(Falsy, h)
             ELSE Out(Different, h)) : left \in {left0}, right \in {right0}, h \in {h0}})

ArMemberMetadataCmp(h0, pair0, ignore_ownerships) ==
    Only({(
        ArHeaders(getmember(h, pair[1]), getmember(h, pair[2]), ignore_ownerships, h)) : h \in {h0}, pair \in {pair0}})

CpioHeaders(left0, right0, ignore_ownerships, h0) ==
    Only({(
        IF ~(left.ok /\ right.ok) THEN Fails(Falsy, h)
        ELSE IF /\ left.v.mode = right.v.mode
                /\ (ignore_ownerships \/ SameOwner(left.v, right.v))
                /\ SizeOf(left.v.c) = SizeOf(right.v.c)
             THEN IF SizeOf(left.v.c) = 0 THEN Out(Same, h) ELSE Out(Falsy, h)
             ELSE Out(Different, h)) : left \in {left0}, right \in {right0}, h \in {h0}})

CpioMemberMetadataCmp(h0, pair0, ignore_ownerships) ==
    Only({(
        CpioHeaders(getmember(h, pair[1]), getmember(h, pair[2]), ignore_ownerships, h)) : h \in {h0}, pair \in {pair0}})

TarHeaders(left0, right0, ignore_ownerships, h0) ==
    Only({(
        IF ~(left.ok /\ right.ok) THEN Fails(Falsy, h)
        ELSE IF /\ left.v.mode = right.v.mode
                /\ left.v.kind = right.v.kind
                /\ left.v.link = right.v.link
                /\ (ignore_ownerships \/ SameOwner(left.v, right.v))
             THEN IF SizeOf(left.v.c) = 0 THEN Out(Same, h) ELSE Out(Falsy, h)
             ELSE Out(Different, h)) : left \in {left0}, right \in {right0}, h \in {h0}})

TarMemberMetadataCmp(h0, pair0, ignore_ownerships) ==
    Only({(
        TarHeaders(getmember(h, pair[1]), getmember(h, pair[2]), ignore_ownerships, h)) : h \in {h0}, pair \in {pair0}})

(***************************************************************************)
(* The registry and the joins of an aggregator.                            *)
(***************************************************************************)
(* a registry that makes a new Item at every call *)
AlwaysCreates(h0, rg0, nm0, par, bx) ==
    Only({(
        [h |-> Append(h, NewItem(nm, par, bx)),
         rg |-> (nm :> (Len(h) + 1)) @@ [m \in DOMAIN rg \ {nm} |-> rg[m]],
         id |-> Len(h) + 1]) : h \in {h0}, rg \in {rg0}, nm \in {nm0}})

(* Items.find_or_create: the interned Item, or a new one appended to the heap *)
find_or_create(h0, rg0, nm0, par, bx) ==
    Only({(
        IF nm \in DOMAIN rg THEN [h |-> h, rg |-> rg, id |-> rg[nm]]
        ELSE [h |-> Append(h, NewItem(nm, par, bx)), rg |-> rg @@ (nm :> (Len(h) + 1)),
              id |-> Len(h) + 1]) : h \in {h0}, rg \in {rg0}, nm \in {nm0}})

(* Box._mates(item, container) *)
_mates(fsys, h, i, container) ==
    Contains(box_keys(fsys, h, container, h[container].box), shortname(h, i))

(* a constructor that accepts every pair *)
NeverExits(ignores, h, pair) == FALSE

(* the check of Comparison.__init__: either item's name is ignored *)
InitExits(ignores, h, pair) ==
    ignoring(ignores, h[pair[1]].name) # 0 \/ ignoring(ignores, h[pair[2]].name) # 0

(* a join that spools every mated pair *)
SpoolsMated(made0, m0, spool, exits, child0) ==
    Only({(
        IF ~m.ok THEN [made EXCEPT !.raised = Fault]
        ELSE IF ~m.v THEN [made EXCEPT !.result = Different,
                                       !.nomate = @ \cup {made.h[child[1]].name}]
        ELSE IF ~spool THEN made
        ELSE [made EXCEPT !.children = Append(@, child)]) : made \in {made0}, m \in {m0}, child \in {child0}})

(* a join that puts the child it spools in front of those spooled before *)
SpoolsInFront(made0, m0, spool, exits, child0) ==
    Only({(
        IF ~m.ok THEN [made EXCEPT !.raised = Fault]
        ELSE IF ~m.v THEN [made EXCEPT !.result = Different,
                                       !.nomate = @ \cup {made.h[child[1]].name}]
        ELSE IF ~spool THEN made
        ELSE IF exits THEN [made EXCEPT !.raised = SystemExit]
        ELSE [made EXCEPT !.children = <<child>> \o @]) : made \in {made0}, m \in {m0}, child \in {child0}})

(* the body of the loop of Box._outer_join for one member, once both *)
(* Items are at hand: made is the join so far with the heap and the  *)
(* registry as find_or_create left them, m what _mates answered;     *)
(* nomate holds the names _no_mate has logged                        *)
Joined(made0, m0, spool, exits, child0) ==
    Only({(
        IF ~m.ok THEN [made EXCEPT !.raised = Fault]
        ELSE IF ~m.v THEN [made EXCEPT !.result = Different,
                                       !.nomate = @ \cup {made.h[child[1]].name}]
        ELSE IF ~spool THEN made
        ELSE IF exits THEN [made EXCEPT !.raised = SystemExit]
        ELSE [made EXCEPT !.children = Append(@, child)]) : made \in {made0}, m \in {m0}, child \in {child0}})

Member2(fsys, ignores, rparent, spool, acc, l0, r0) ==
    Only({(
        Joined([acc EXCEPT !.h = r.h, !.rg = r.rg], _mates(fsys, r.h, l.id, rparent), spool,
               InitExits(ignores, r.h, <<l.id, r.id>>), <<l.id, r.id>>)) : l \in {l0}, r \in {r0}})

Member1(fsys, ignores, cls, rparent0, spool, acc, l0, rname) ==
    Only({(
        Member2(fsys, ignores, rparent, spool, acc, l,
                find_or_create(l.h, l.rg, rname, rparent, cls))) : rparent \in {rparent0}, l \in {l0}})

(* a loop over the keys that leaves no member out *)
NeverSkipped(ignores, fullname) == FALSE

(* Box._expand: a member whose extended name is ignored is not expanded *)
Skipped(ignores, fullname) == ignoring(ignores, fullname) # 0

(* Box._outer_join(comparison, invert, spool), with lparent and rparent *)
(* already chosen.  acc is [h, rg, children, result, raised, nomate].  A *)
(* member whose left name is ignored is skipped by _expand.              *)
RECURSIVE OuterJoinFrom(_, _, _, _, _, _, _, _, _)
OuterJoinFrom(fsys0, ignores0, cls0, lparent0, rparent0, spool0, keys0, x0, acc0) ==
    Only({(
        IF x > Len(keys) \/ acc.raised # NoRet THEN acc
        ELSE OuterJoinFrom(fsys, ignores, cls, lparent, rparent, spool, keys, x + 1,
                IF Skipped(ignores, Join(cls, acc.h[lparent].name, keys[x])) THEN acc
                ELSE Member1(fsys, ignores, cls, rparent, spool, acc,
                             find_or_create(acc.h, acc.rg, Join(cls, acc.h[lparent].name, keys[x]),
                                            lparent, cls),
                             Join(cls, acc.h[rparent].name, keys[x])))) : fsys \in {fsys0}, ignores \in {ignores0}, cls \in {cls0}, lparent \in {lparent0}, rparent \in {rparent0}, spool \in {spool0}, keys \in {keys0}, x \in {x0}, acc \in {acc0}})

JoinKeys(fsys, ignores, cls, lparent, rparent, spool, keys0, acc0) ==
    Only({(
        IF ~keys.ok THEN [acc EXCEPT !.raised = Fault]
        ELSE OuterJoinFrom(fsys, ignores, cls, lparent, rparent, spool, keys.v, 1,
                           [acc EXCEPT !.result = Falsy])) : keys \in {keys0}, acc \in {acc0}})

_outer_join(fsys0, ignores0, cls0, pair0, invert, spool0, acc0) ==
    Only({(
        IF invert
        THEN JoinKeys(fsys, ignores, cls, pair[2], pair[1], spool,
                      box_keys(fsys, acc.h, pair[2], cls), acc)
        ELSE JoinKeys(fsys, ignores, cls, pair[1], pair[2], spool,
                      box_keys(fsys, acc.h, pair[1], cls), acc)) : fsys \in {fsys0}, ignores \in {ignores0}, cls \in {cls0}, pair \in {pair0}, spool \in {spool0}, acc \in {acc0}})

_left_outer_join(fsys, ignores, cls, pair, acc) ==
    _outer_join(fsys, ignores, cls, pair, FALSE, TRUE, acc)

_right_outer_join(fsys, ignores, cls, pair, acc) ==
    _outer_join(fsys, ignores, cls, pair, TRUE, FALSE, acc)

(* the content each side's archive handle is opened on, by the cmp of cls *)
OpenedOn(cls, c1, c2) ==
    IF cls = "Cpio" THEN <<c1, c1>> ELSE <<c1, c2>>

Attach(h0, pair0, on0) ==
    Only({(
        [i \in 1..Len(h) |->
            IF i = pair[2] THEN [h[i] EXCEPT !.session = <<on[2]>>]
            ELSE IF i = pair[1] THEN [h[i] EXCEPT !.session = <<on[1]>>]
            ELSE h[i]]) : h \in {h0}, pair \in {pair0}, on \in {on0}})

(* openar reads every header and openzip runs the self-test of the archive *)
(* before they yield the handle                                            *)
OpenFails(cls, c) == cls \in {"Ar", "Zip"} /\ c.bad

(* contextlib.nested enters the left context manager, then the right one, *)
(* and binds the two handles to the items once both are open.  open says  *)
(* for each side whether an archive object was constructed on it.         *)
Sessions(cc0, pair, cls0, on0) ==
    Only({(
        IF ~(cc.ok1 /\ cc.ok2) THEN [ok |-> FALSE, h |-> cc.h, open |-> <<0, 0>>]
        ELSE IF OpenFails(cls, on[1]) THEN [ok |-> FALSE, h |-> cc.h, open |-> <<1, 0>>]
        ELSE IF OpenFails(cls, on[2]) THEN [ok |-> FALSE, h |-> cc.h, open |-> <<1, 1>>]
        ELSE [ok |-> TRUE, h |-> Attach(cc.h, pair, on), open |-> <<1, 1>>]) : cc \in {cc0}, cls \in {cls0}, on \in {on0}})

Handles(cc0, cls0, pair) ==
    Only({(Sessions(cc, pair, cls, OpenedOn(cls, cc.v1, cc.v2))) : cc \in {cc0}, cls \in {cls0}})

(* the heap once cls.cmp has opened a handle on each side *)
Opened(fsys, h0, cls0, pair0) ==
    Only({(
        IF cls = "Dir" THEN [ok |-> TRUE, h |-> h, open |-> <<0, 0>>]
        ELSE Handles(contents(fsys, h, pair), cls, pair)) : h \in {h0}, cls \in {cls0}, pair \in {pair0}})

(* Box.cmp binds both items to cls before it joins *)
Mount(h0, cls, pair0) ==
    Only({(
        [i \in 1..Len(h) |-> IF i \in {pair[1], pair[2]} THEN [h[i] EXCEPT !.box = cls] ELSE h[i]]) : h \in {h0}, pair \in {pair0}})

(* ZipComparator.cmp answers Different on its own when the archive comments differ *)
CommentsDiffer(h, cls, pair) ==
    /\ cls = "Zip"
    /\ h[pair[1]].session[1].comment # h[pair[2]].session[1].comment

RightAfter(lj0, fsys, ignores, cls, pair) ==
    Only({(
        IF lj.raised # NoRet \/ lj.result = Different THEN lj
        ELSE _right_outer_join(fsys, ignores, cls, pair, lj)) : lj \in {lj0}})

(* the two outer joins as Box.cmp runs them: the right one only when the *)
(* left one found every member mated                                     *)
OuterJoins(fsys0, ignores0, cls0, pair0, h0, rg0) ==
    Only({(
        RightAfter(_left_outer_join(fsys, ignores, cls, pair,
                      [h |-> h, rg |-> rg, children |-> <<>>, result |-> Falsy, raised |-> NoRet,
                       nomate |-> {}]),
                   fsys, ignores, cls, pair)) : fsys \in {fsys0}, ignores \in {ignores0}, cls \in {cls0}, pair \in {pair0}, h \in {h0}, rg \in {rg0}})

(***************************************************************************)
(* Comparison.cmp: the dispatch loop.                                      *)
(***************************************************************************)
(* one turn of the loop: comparator j, what _applies answered for each *)
(* item, whether cmp was called and what became of the call           *)
Tried(j, a, r, each) == [i |-> j, applied |-> a, res |-> r, each |-> each]

Stands(hp, j, tried, state, each) ==
    [h |-> hp, idx |-> j, tried |-> tried, st |-> state, each |-> each]

(* run the loop from comparators[j] up to the first comparator that  *)
(* applies: st is "ready" there, "indet" past the end of the chain,   *)
(* "fault" when an applies raised                                     *)
RECURSIVE Select(_, _, _, _, _, _)
Selected(a0, fsys, chain, pair, j0, tried0) ==
    Only({(
        IF ~a.ok THEN Stands(a.h, j, tried, "fault", a.each)
        ELSE IF a.v THEN Stands(a.h, j, tried, "ready", a.each)
        ELSE Select(fsys, a.h, chain, pair, j + 1, Append(tried, Tried(j, FALSE, "skip", a.each)))) : a \in {a0}, j \in {j0}, tried \in {tried0}})

Select(fsys, h, chain, pair, j, tried) ==
    IF j > Len(chain) THEN Stands(h, j, tried, "indet", <<FALSE, FALSE>>)
    ELSE CHOOSE s \in {Selected(a, fsys, chain, pair, j, tried) :
                          a \in {applies(chain[j], fsys, h, pair)}} : TRUE

(***************************************************************************)
(* The inputs: file systems, configurations and calls.                     *)
(***************************************************************************)
(* payload bytes range over 1..MaxByte *)
MaxByte == 2

(* how many times a caller compares the two trees, swapping sides between calls *)
MaxRuns == 2

(* the deepest nesting of Comparison.cmp activations explored; the trees of *)
(* this model nest three deep                                               *)
MaxDepth == 5

Payloads == {<<>>} \cup {<<d>> : d \in 1..MaxByte}

(* directory entries: files, a link to a file, a dangling link *)
FileVals == {RegNode(RawC(p)) : p \in Payloads} \cup {LnkNode("x", "reg"), LnkNode("y", "none")}

(* archive members: plain members, one owned by another user *)
MemberVals == {RegMember(RawC(p)) : p \in Payloads} \cup {Member(0, 1, "reg", "", RawC(<<1>>))}

(* member lists over the keys "a" and "b", in both listing orders *)
Lists(avals, bvals) ==
    {<<>>} \cup {<<Ent("a", v)>> : v \in avals} \cup {<<Ent("b", w)>> : w \in bvals}
    \cup {<<Ent("a", v), Ent("b", w)>> : v \in avals, w \in bvals}
    \cup {<<Ent("b", w), Ent("a", v)>> : v \in avals, w \in bvals}

(* the lists a left side is drawn from; the right side ranges over all lists *)
BaseLists(v0, v1) ==
    {<<>>, <<Ent("a", v0)>>, <<Ent("a", v1), Ent("b", v1)>>}

Pair(kd, l, r) == [k |-> kd, l |-> l, r |-> r]

DirPairs ==
    LET f(p) == RegNode(RawC(p))
    IN {Pair("dir", DirNode(l), DirNode(r)) :
           l \in BaseLists(f(<<>>), f(<<1>>)),
           r \in Lists(FileVals, {f(<<1>>), LnkNode("y", "reg")})}

Formats == {"ar", "cpio", "tar", "zip"}

ArchivePairs ==
    LET m(p) == RegMember(RawC(p))
    IN {Pair("archive", RegNode(ArchC(fm, l, 0, 0)), RegNode(ArchC(fm, r, 0, 0))) :
           fm \in Formats,
           l \in BaseLists(m(<<>>), m(<<1>>)),
           r \in Lists(MemberVals, {m(<<1>>), m(<<2>>)})}

(* plain files, among them two that differ only in how a date is rendered *)
Leaves ==
    FileVals \cup {RegNode(RawC(<<7, 8>>)), RegNode(RawC(<<7, 9>>)), AbsentNode}

LeafPairs == {Pair("other", l, r) : l \in Leaves, r \in Leaves}

SampleTar(p) == ArchC("tar", <<Ent("a", RegMember(RawC(p)))>>, 0, 0)

SampleZip(cm) == ArchC("zip", <<Ent("a", RegMember(RawC(<<1>>)))>>, 0, cm)

(* containers inside containers, encoded files, archives that differ only *)
(* in their own header                                                     *)
Nested ==
    { DirNode(<<Ent("a", DirNode(<<Ent("b", RegNode(RawC(<<1>>)))>>))>>),
      DirNode(<<Ent("a", DirNode(<<Ent("b", RegNode(RawC(<<2>>)))>>))>>),
      DirNode(<<Ent("a", DirNode(<<>>)), Ent("b", RegNode(RawC(<<1>>)))>>),
      DirNode(<<Ent("a", RegNode(SampleTar(<<1>>)))>>),
      DirNode(<<Ent("a", RegNode(SampleTar(<<2>>)))>>),
      DirNode(<<Ent("a", RegNode(RawC(<<1>>))), Ent("b", RegNode(SampleTar(<<2>>)))>>),
      RegNode(GzipC(RawC(<<1>>), 0)),
      RegNode(GzipC(RawC(<<1>>), 1)),
      RegNode(GzipC(RawC(<<2>>), 0)),
      RegNode(GzipC(SampleTar(<<1>>), 0)),
      RegNode(GzipC(SampleTar(<<2>>), 1)),
      RegNode(SampleZip(0)),
      RegNode(SampleZip(1)),
      RegNode(Damaged(SampleZip(0))),
      RegNode(SampleTar(<<1>>)),
      RegNode(ArchC("ar", <<Ent("a", RegMember(SampleTar(<<1>>)))>>, 0, 0)),
      RegNode(ArchC("ar", <<Ent("a", RegMember(SampleTar(<<2>>)))>>, 0, 0)),
      RegNode(Damaged(ArchC("ar", <<Ent("a", RegMember(SampleTar(<<1>>)))>>, 0, 0))),
      RegNode(ArchC("cpio", <<>>, 0, 0)),
      DirNode(<<>>) }

(* nested inputs are paired with inputs of their own kind, and a few with *)
(* inputs of another kind                                                 *)
NestedPairs ==
    {pr \in {Pair("other", l, r) : l \in Nested, r \in Nested} :
        pr.l.t = pr.r.t /\ pr.l.c.fmt = pr.r.c.fmt}
    \cup {Pair("other", l, r) : l \in {DirNode(<<>>), RegNode(SampleTar(<<1>>))},
                                r \in {RegNode(RawC(<<1>>)), RegNode(SampleZip(0)),
                                       LnkNode("y", "none"), DirNode(<<>>)}}

(* a directory whose only entry is a symbolic link to the left tree: to *)
(* the directory that holds it when it is the left tree itself         *)
Looped == DirNode(<<Ent("a", LnkNode("L", "dir"))>>)

(* the link is compared with a link like it and with a real directory *)
LoopedPairs ==
    {Pair("other", Looped, r) : r \in {Looped, DirNode(<<Ent("a", DirNode(<<>>))>>)}}

(* inputs for the calls other than Comparison("L", "R") *)
SmallPairs == {Pair("small", l, RegNode(RawC(<<1>>))) : l \in Leaves \cup Nested}

Pairs == DirPairs \cup ArchivePairs \cup LeafPairs \cup NestedPairs \cup SmallPairs \cup LoopedPairs

(* the inputs of the runs that are followed to their end: a few pairs of *)
(* each kind                                                            *)
LivePairs ==
    LoopedPairs
    \cup {pr \in DirPairs : Len(pr.l.ents) = 2 /\ Len(pr.r.ents) = 2 /\ pr.r.ents[1].k = "b"
                             /\ pr.r.ents[1].v.t = "lnk"}
    \cup {pr \in ArchivePairs : /\ Len(pr.l.c.ents) = 2 /\ Len(pr.r.c.ents) = 2
                                 /\ pr.r.c.ents[1].v.uid = 1
                                 /\ pr.r.c.ents[2].v.c = RawC(<<2>>)}
    \cup {pr \in LeafPairs : pr.l = pr.r /\ pr.l \in {RegNode(RawC(<<>>)), LnkNode("y", "none")}}
    \cup {Pair("other", RegNode(RawC(<<7, 8>>)), RegNode(RawC(<<7, 9>>))),
          Pair("other", RegNode(GzipC(SampleTar(<<1>>), 0)), RegNode(GzipC(SampleTar(<<2>>), 1))),
          Pair("other", RegNode(ArchC("ar", <<Ent("a", RegMember(SampleTar(<<1>>)))>>, 0, 0)),
                        RegNode(ArchC("ar", <<Ent("a", RegMember(SampleTar(<<2>>)))>>, 0, 0))),
          Pair("other", DirNode(<<Ent("a", DirNode(<<Ent("b", RegNode(RawC(<<1>>)))>>))>>),
                        DirNode(<<Ent("a", DirNode(<<Ent("b", RegNode(RawC(<<2>>)))>>))>>))}
    \cup {pr \in SmallPairs : pr.l \in {RegNode(RawC(<<1>>)), AbsentNode}}

(* a file system: the two paths a caller names, a path that does not exist, *)
(* and a copy of the left one under a name the text normalisers are gated  *)
(* on                                                                       *)
World(pr) == ("L" :> pr.l) @@ ("R" :> pr.r) @@ ("N" :> AbsentNode) @@ ("Makefile" :> pr.l)

(***************************************************************************)
(* Configurations: the keyword arguments of Comparison and ComparisonList. *)
(***************************************************************************)
Config(c, i, e, o) ==
    [comparators |-> c, ignores |-> i, exit_asap |-> e, ignore_ownerships |-> o]

(* the default chain without its last element *)
truncated == SubSeq(default_comparators, 1, Len(default_comparators) - 1)

(* a chain that looks at the headers of cpio members before anything else *)
headers_first == <<"CpioMemberMetadata", "Cpio", "Fail">>

(* a chain that asks what kind of file a path is before it asks whether *)
(* the path exists                                                      *)
kind_first == <<"Dir", "NoSuchFile", "Fail">>

(* a chain in which a comparator gated on the name of an item reads the *)
(* content of that item before the bytes are compared                   *)
text_first == <<"AM", "Bitwise", "Fail">>

Chains == {default_comparators, truncated, <<>>, headers_first, kind_first, text_first}

LeftAndRight == << <<"*", "b">> >>

RightOnly == << <<"R", "*", "b">> >>

(* a pattern that matches a name the caller passes *)
AtTop == << <<"N">> >>

IgnoreLists == {<<>>, LeftAndRight, RightOnly, AtTop}

Configs == {Config(c, i, e, o) : c \in Chains, i \in IgnoreLists, e \in BOOLEAN, o \in BOOLEAN}

(***************************************************************************)
(* Calls: one Comparison of two names, or a ComparisonList of two lists.   *)
(***************************************************************************)
Single(l, r) == [mode |-> "single", l |-> <<l>>, r |-> <<r>>]

Listed(ls, rs) == [mode |-> "list", l |-> ls, r |-> rs]

Calls ==
    {Single("L", "R"),
     Single("L", "L"), Single("L", "N"), Single("N", "L"), Single("N", "N"),
     Listed(<<"L">>, <<"R">>), Listed(<<"L", "R">>, <<"L", "L">>),
     Listed(<<"L", "N">>, <<"R", "N">>), Listed(<<"L">>, <<>>), Listed(<<>>, <<>>),
     Listed(<<"L", "N">>, <<"R">>),
     Single("Makefile", "R")}

(* the combinations explored: ownership only matters where members have  *)
(* owners, a pattern for one side only where there are members to ignore *)
Explored(pr, c, t) ==
    /\ t = Single("L", "R") => pr.k # "small"
    /\ t = Listed(<<"L">>, <<"R">>) => pr.k \in {"small", "other"}
    /\ t \notin {Single("L", "R"), Listed(<<"L">>, <<"R">>)} => pr.k = "small"
    /\ c.ignore_ownerships => pr.k = "archive"
    /\ c.ignores = RightOnly => pr.k \in {"dir", "archive"}
    /\ c.comparators = headers_first => (pr.k = "archive" /\ pr.l.c.fmt = "cpio")
    /\ c.comparators = kind_first => (pr.k = "small" /\ pr.l \in Leaves /\ c.ignores = <<>>)
    /\ c.ignores = AtTop => (pr.k = "small" /\ pr.l \in Leaves)
    /\ c.comparators = text_first <=> t = Single("Makefile", "R")
    /\ c.comparators = text_first => (pr.l \in Leaves /\ c.ignores = <<>>)

(***************************************************************************)
(* The state.                                                              *)
(*   fs, cfg, top  the file system, the configuration and the call         *)
(*   heap, reg     every Item constructed; Items._content                  *)
(*   stack         the Comparison.cmp activations, outermost first         *)
(*   ret           the verdict the activation that just returned handed to *)
(*                 its caller, NoRet while none is pending                 *)
(*   out           how the call ended: a verdict or what it raised         *)
(*   done          one entry per finished Comparison.cmp, in finish order  *)
(*   pc            "new" | "single" | "list" | "done"                      *)
(*   run, prev     the number of this call and how the previous one ended  *)
(*   change        what the caller changed since the previous call:        *)
(*                 "none" | "sides" | "exit_asap" | "comparison" | "delete"*)
(*   lst           the locals of ComparisonList.cmp                        *)
(***************************************************************************)
VARIABLES fs, cfg, top, heap, reg, stack, ret, out, done, pc, run, prev, change, lst

vars == <<fs, cfg, top, heap, reg, stack, ret, out, done, pc, run, prev, change, lst>>

NoList == [stuff |-> <<<<>>, <<>>>>, i |-> 1, result |-> Same, pair |-> <<RootId, RootId>>]

Init ==
    /\ \E pr \in Pairs, c \in Configs, t \in Calls :
          /\ Explored(pr, c, t)
          /\ fs = World(pr)
          /\ cfg = c
          /\ top = t
    /\ heap = <<root>>
    /\ reg = <<>>
    /\ stack = <<>>
    /\ ret = NoRet
    /\ out = NoRet
    /\ done = <<>>
    /\ pc = "new"
    /\ run = 1
    /\ prev = NoRet
    /\ change = "none"
    /\ lst = NoList

(* a Comparison made without its maker's exit_asap: the default, unset *)
InheritsButExitAsap(kw) == Config(kw.comparators, kw.ignores, FALSE, kw.ignore_ownerships)

(* a Comparison made by another one is given the comparators, ignores, *)
(* exit_asap and ignore_ownerships of its maker as keyword arguments   *)
Inherit(kw) == Config(kw.comparators, kw.ignores, kw.exit_asap, kw.ignore_ownerships)

(* an activation of Comparison.cmp, standing at the first comparator that *)
(* applies; kw holds the keyword arguments the Comparison was made with   *)
Frame(pair, sel, kw) ==
    [pair |-> pair, kw |-> kw, idx |-> sel.idx, st |-> sel.st, tried |-> sel.tried, each |-> sel.each,
     phase |-> "dispatch", box |-> "", children |-> <<>>, called |-> 0, kids |-> <<>>,
     retval |-> Same, unmated |-> FALSE, nomate |-> {}, open |-> <<0, 0>>, shut |-> <<0, 0>>]

Top == stack[Len(stack)]

Pop == SubSeq(stack, 1, Len(stack) - 1)

Chain == cfg.comparators

(* the keyword arguments of the Comparison whose cmp is running *)
Kw == Top.kw

Ready == /\ pc \in {"single", "list"}
         /\ stack # <<>>
         /\ ret = NoRet
         /\ Top.phase = "dispatch"

Invoked(f, r) == [f EXCEPT !.tried = Append(@, Tried(f.idx, TRUE, r, f.each))]

(* what is recorded of a finished activation f *)
Entry(f, h, o, d) ==
    [l |-> h[f.pair[1]].name, r |-> h[f.pair[2]].name, pair |-> f.pair, depth |-> d,
     tried |-> f.tried,
     box |-> f.box, spooled |-> [x \in 1..Len(f.children) |-> h[f.children[x][1]].name],
     called |-> f.called, kids |-> f.kids, unmated |-> f.unmated, nomate |-> f.nomate,
     open |-> f.open,
     shut |-> f.shut, out |-> o]

Pushed(below0, pair, rg, sel0, kw) ==
    \E sel \in {sel0}, below \in {below0} :
        /\ heap' = sel.h
        /\ reg' = rg
        /\ stack' = Append(below, Frame(pair, sel, kw))
        /\ ret' = NoRet

(* cmp is called on a Comparison of pair made with the keyword arguments *)
(* kw: a new activation                                                  *)
Push(below, pair, h0, rg, kw0) ==
    \E h \in {h0}, kw \in {kw0} :
        Pushed(below, pair, rg, Select(fs, h, kw.comparators, pair, 1, <<>>), kw)

(* a return that leaves the contents of the pair where they are *)
ReturnsUnreset(f0, v, h0, rg) ==
    \E f \in {f0}, h \in {h0} :
        /\ heap' = h
        /\ reg' = rg
        /\ stack' = Pop
        /\ ret' = v
        /\ done' = Append(done, Entry(f, h, v, Len(stack)))
        /\ IF Len(stack) = 1 /\ pc = "single"
           THEN out' = v /\ pc' = "done"
           ELSE UNCHANGED <<out, pc>>
        /\ UNCHANGED <<fs, cfg, top, change, run, prev, lst>>

(* leaving the with statement of an aggregator's cmp by a return resumes *)
(* each context manager after its yield, where it closes its handle     *)
Shut(f) == [f EXCEPT !.shut = f.open]

(* the top activation, now f, returns verdict v: self.reset(); return result *)
Returns(f0, v, h0, rg) ==
    \E f \in {f0}, h \in {h0} :
        /\ heap' = ResetPair(h, f.pair)
        /\ reg' = rg
        /\ stack' = Pop
        /\ ret' = v
        /\ done' = Append(done, Entry(Shut(f), h, v, Len(stack)))
        /\ IF Len(stack) = 1 /\ pc = "single"
           THEN out' = v /\ pc' = "done"
           ELSE UNCHANGED <<out, pc>>
        /\ UNCHANGED <<fs, cfg, top, change, run, prev, lst>>

(* e is raised in the top activation, now f, and propagates to the caller *)
Raises(f0, e, h0, rg) ==
    \E f \in {f0}, h \in {h0} :
        /\ heap' = h
        /\ reg' = rg
        /\ stack' = <<>>
        /\ ret' = NoRet
        /\ out' = e
        /\ pc' = "done"
        /\ done' = done \o [x \in 1..Len(stack) |->
                              IF x = 1 THEN Entry(f, h, e, Len(stack))
                              ELSE Entry(Invoked(stack[Len(stack) + 1 - x], "raised"), h, e,
                                         Len(stack) + 1 - x)]
        /\ UNCHANGED <<fs, cfg, top, change, run, prev, lst>>

Continued(f0, sel0) ==
    \E f \in {f0}, sel \in {sel0} :
        /\ heap' = sel.h
        /\ stack' = [stack EXCEPT ![Len(stack)] =
                        [f EXCEPT !.idx = sel.idx, !.st = sel.st, !.tried = sel.tried,
                                  !.each = sel.each]]
        /\ UNCHANGED <<fs, cfg, top, change, reg, ret, out, done, pc, run, prev, lst>>

(* the top activation goes on with the comparators after the one that ran *)
Continues(f0, h0) ==
    \E f \in {f0}, h \in {h0} :
        Continued(f, Select(fs, h, f.kw.comparators, f.pair, f.idx + 1, f.tried))

(***************************************************************************)
(* Actions.  An action is one call of a comparator's cmp from the loop of  *)
(* Comparison.cmp, together with the part of the loop that follows it up   *)
(* to the next call.                                                       *)
(***************************************************************************)
(* Comparison(lname=..., rname=...).cmp(): the constructor, then the loop *)
(* up to the first comparator that applies                               *)
Start ==
    /\ pc = "new"
    /\ top.mode = "single"
    /\ \E r \in {find_or_create(heap, reg, <<top.r[1]>>, RootId, "Dir")} :
       \E l \in {find_or_create(r.h, r.rg, <<top.l[1]>>, RootId, "Dir")} :
       \E pair \in {<<l.id, r.id>>} :
          IF InitExits(cfg.ignores, l.h, pair)
          THEN /\ heap' = l.h
               /\ reg' = l.rg
               /\ out' = SystemExit
               /\ pc' = "done"
               /\ UNCHANGED <<stack, ret>>
          ELSE /\ Push(stack, pair, l.h, l.rg, cfg)
               /\ pc' = "single"
               /\ out' = out
    /\ UNCHANGED <<fs, cfg, top, change, done, run, prev, lst>>

(* the loop of Comparison.cmp stands at comparator cmpr, which applies *)
At(cmpr) ==
    /\ Ready
    /\ Top.st = "ready"
    /\ Kw.comparators[Top.idx] = cmpr

(* a loop that does not stop at a verdict *)
LeafKeepsGoing(o0) ==
    \E o \in {o0} :
        IF ~o.ok THEN Raises(Invoked(Top, "raised"), Fault, o.h, reg)
        ELSE Continues(Invoked(Top, o.v), o.h)

(* what the loop does with the outcome o of a comparator that does not recurse *)
Leaf(o0) ==
    \E o \in {o0} :
        IF ~o.ok THEN Raises(Invoked(Top, "raised"), Fault, o.h, reg)
        ELSE IF o.v \in Verdicts THEN Returns(Invoked(Top, o.v), o.v, o.h, reg)
        ELSE Continues(Invoked(Top, Falsy), o.h)

NoSuchFileComparator == At("NoSuchFile") /\ Leaf(NoSuchFileCmp(fs, heap, Top.pair))

InodeComparator == At("Inode") /\ Leaf(InodeCmp(fs, heap, Top.pair))

EmptyFileComparator == At("EmptyFile") /\ Leaf(EmptyFileCmp(fs, heap, Top.pair))

BitwiseComparator == At("Bitwise") /\ Leaf(BitwiseCmp(fs, heap, Top.pair))

DateBlotBitwiseComparator == At("DateBlotBitwise") /\ Leaf(DateBlotBitwiseCmp(fs, heap, Top.pair))

SymlinkComparator == At("Symlink") /\ Leaf(SymlinkCmp(fs, heap, Top.pair))

FailComparator == At("Fail") /\ Leaf(FailCmp(fs, heap, Top.pair))

ArMemberMetadataComparator ==
    At("ArMemberMetadata") /\ Leaf(ArMemberMetadataCmp(heap, Top.pair, Kw.ignore_ownerships))

CpioMemberMetadataComparator ==
    At("CpioMemberMetadata") /\ Leaf(CpioMemberMetadataCmp(heap, Top.pair, Kw.ignore_ownerships))

TarMemberMetadataComparator ==
    At("TarMemberMetadata") /\ Leaf(TarMemberMetadataCmp(heap, Top.pair, Kw.ignore_ownerships))

(* Box.cmp after its outer joins j, with the handles open as open says *)
BoxJoined(cls, j0, open) ==
    \E j \in {j0} :
        LET f == [Top EXCEPT !.box = cls, !.children = j.children, !.open = open,
                             !.unmated = (j.result = Different), !.nomate = j.nomate,
                             !.retval = IF j.result = Different THEN Different ELSE Same]
        IN IF j.raised # NoRet
           THEN Raises(Invoked(f, "raised"), j.raised, j.h, j.rg)
           ELSE IF j.result = Different /\ Kw.exit_asap
           THEN Returns(Invoked(f, Different), Different, ResetPair(j.h, f.pair), j.rg)
           ELSE /\ heap' = j.h
                /\ reg' = j.rg
                /\ stack' = [stack EXCEPT ![Len(stack)] = [f EXCEPT !.phase = "inner"]]
                /\ UNCHANGED <<fs, cfg, top, change, ret, out, done, pc, run, prev, lst>>

(* cls.cmp from its with statement on: o is what entering it came to *)
BoxOpened(cls, o0) ==
    \E o \in {o0} :
        IF ~o.ok
        THEN Raises(Invoked([Top EXCEPT !.box = cls, !.open = o.open], "raised"), Fault, o.h, reg)
        ELSE IF CommentsDiffer(o.h, cls, Top.pair)
        THEN Returns(Invoked([Top EXCEPT !.box = cls, !.open = o.open], Different), Different,
                     o.h, reg)
        ELSE BoxJoined(cls, OuterJoins(fs, Kw.ignores, cls, Top.pair,
                                       Mount(o.h, cls, Top.pair), reg), o.open)

(* an aggregator is called: cls.cmp opens the handles, Box.cmp binds the *)
(* boxes and runs the outer joins                                        *)
BoxStep(cls) == At(cls) /\ BoxOpened(cls, Opened(fs, heap, cls, Top.pair))

DirComparator == BoxStep("Dir")

ArComparator == BoxStep("Ar")

CpioComparator == BoxStep("Cpio")

TarComparator == BoxStep("Tar")

ZipComparator == BoxStep("Zip")

(* Box._inner_join: c.cmp() on the next spooled child *)
InnerJoinCall ==
    /\ pc \in {"single", "list"}
    /\ stack # <<>>
    /\ ret = NoRet
    /\ Top.phase = "inner"
    /\ Top.called < Len(Top.children)
    /\ Len(stack) < MaxDepth
    /\ Push([stack EXCEPT ![Len(stack)].called = @ + 1], Top.children[Top.called + 1],
            heap, reg, Inherit(Kw))
    /\ UNCHANGED <<fs, cfg, top, change, out, done, pc, run, prev, lst>>

(* an inner join that never returns early *)
InnerJoinGoesOn ==
    /\ pc \in {"single", "list"}
    /\ stack # <<>>
    /\ ret \in Verdicts
    /\ Top.phase = "inner"
    /\ stack' = [stack EXCEPT ![Len(stack)] =
                    [Top EXCEPT !.kids = Append(@, ret),
                                !.retval = IF ret = Different THEN Different ELSE @]]
    /\ ret' = NoRet
    /\ UNCHANGED <<fs, cfg, top, change, heap, reg, out, done, pc, run, prev, lst>>

(* Box._inner_join: the child returned r *)
InnerJoinReturn ==
    /\ pc \in {"single", "list"}
    /\ stack # <<>>
    /\ ret \in Verdicts
    /\ Top.phase = "inner"
    /\ LET f == [Top EXCEPT !.kids = Append(@, ret),
                            !.retval = IF ret = Different THEN Different ELSE @]
       IN IF ret = Different /\ Kw.exit_asap
          THEN Returns(Invoked(f, Different), Different, ResetPair(heap, f.pair), reg)
          ELSE /\ stack' = [stack EXCEPT ![Len(stack)] = f]
               /\ ret' = NoRet
               /\ UNCHANGED <<fs, cfg, top, change, heap, reg, out, done, pc, run, prev, lst>>

(* a compare that forgets what the joins found *)
BoxReturnsSame ==
    /\ pc \in {"single", "list"}
    /\ stack # <<>>
    /\ ret = NoRet
    /\ Top.phase = "inner"
    /\ Top.called = Len(Top.children)
    /\ Returns(Invoked(Top, Same), Same, ResetPair(heap, Top.pair), reg)

(* Box._inner_join ran out of children and Box.cmp returns retval *)
BoxReturn ==
    /\ pc \in {"single", "list"}
    /\ stack # <<>>
    /\ ret = NoRet
    /\ Top.phase = "inner"
    /\ Top.called = Len(Top.children)
    /\ Returns(Invoked(Top, Top.retval), Top.retval,
               IF Top.retval = Same THEN ResetPair(heap, Top.pair) ELSE heap, reg)

(* Encoder.cmp: both items are bound to the decoder, two Items for the *)
(* decoded payloads are constructed (not through the registry) and     *)
(* compared                                                            *)
GzipComparator ==
    /\ Ready
    /\ Top.st = "ready"
    /\ Kw.comparators[Top.idx] = "Gzip"
    /\ LET pair == Top.pair
           h1 == Mount(heap, "Gzip", pair)
           litem == NewItem(Join("Gzip", h1[pair[1]].name, GzipContentName), pair[1], "Gzip")
           ritem == NewItem(Join("Gzip", h1[pair[2]].name, GzipContentName), pair[2], "Gzip")
           h2 == h1 \o <<litem, ritem>>
           child == <<Len(h1) + 1, Len(h1) + 2>>
           f == [Top EXCEPT !.box = "Gzip", !.phase = "encoder", !.children = <<child>>,
                            !.called = 1]
       IN IF InitExits(Kw.ignores, h2, child)
          THEN Raises(Invoked(f, "raised"), SystemExit, h2, reg)
          ELSE /\ Push([stack EXCEPT ![Len(stack)] = f], child, h2, reg, Inherit(Kw))
               /\ UNCHANGED <<fs, cfg, top, change, out, done, pc, run, prev, lst>>

(* Encoder.cmp returns what the comparison of the payloads returned *)
EncoderReturn ==
    /\ pc \in {"single", "list"}
    /\ stack # <<>>
    /\ ret \in Verdicts
    /\ Top.phase = "encoder"
    /\ Returns(Invoked([Top EXCEPT !.kids = <<ret>>, !.retval = ret], ret), ret, heap, reg)

(* a loop that raises only in the outermost comparison and answers *)
(* Different inside an aggregate                                   *)
IndeterminateOnlyAtTop ==
    /\ Ready
    /\ Top.st = "indet"
    /\ IF Len(stack) > 1 THEN Returns(Top, Different, heap, reg)
       ELSE Raises(Top, IndeterminateResult, heap, reg)

(* a loop that hands the sentinel of its last comparator to the caller *)
ReturnsSentinel ==
    /\ Ready
    /\ Top.st = "indet"
    /\ Returns(Top, Falsy, heap, reg)

(* the loop of Comparison.cmp ran off the end of the chain *)
RaiseIndeterminate ==
    /\ Ready
    /\ Top.st = "indet"
    /\ Raises(Top, IndeterminateResult, heap, reg)

(* an applies of the chain raised *)
RaiseFault ==
    /\ Ready
    /\ Top.st = "fault"
    /\ Raises([Top EXCEPT !.tried = Append(@, Tried(Top.idx, FALSE, "raised", Top.each))],
              Fault, heap, reg)

(***************************************************************************)
(* ComparisonList.                                                         *)
(***************************************************************************)
(* ComparisonList.__init__ drops the ignored names of a list *)
RECURSIVE Kept(_, _)
Kept(ignores, names) ==
    IF names = <<>> THEN <<>>
    ELSE IF ignoring(ignores, <<Head(names)>>) # 0 THEN Kept(ignores, Tail(names))
         ELSE <<Head(names)>> \o Kept(ignores, Tail(names))

Longest(stuff) == IF Len(stuff[1]) >= Len(stuff[2]) THEN Len(stuff[1]) ELSE Len(stuff[2])

(* ComparisonList(stuff).cmp() up to its loop *)
ListStart ==
    /\ pc = "new"
    /\ top.mode = "list"
    /\ LET stuff == <<Kept(cfg.ignores, top.l), Kept(cfg.ignores, top.r)>>
       IN IF Len(stuff[1]) # Len(stuff[2]) /\ cfg.exit_asap
          THEN out' = Different /\ pc' = "done" /\ lst' = [lst EXCEPT !.stuff = stuff]
          ELSE out' = out /\ pc' = "list" /\ lst' = [lst EXCEPT !.stuff = stuff]
    /\ UNCHANGED <<fs, cfg, top, change, heap, reg, stack, ret, done, run, prev>>

(* the loop body of ComparisonList.cmp up to comparison.cmp() *)
ListCall ==
    /\ pc = "list"
    /\ stack = <<>>
    /\ ret = NoRet
    /\ lst.i <= Longest(lst.stuff)
    /\ IF lst.i > Len(lst.stuff[1])
       THEN /\ out' = Fault
            /\ pc' = "done"
            /\ UNCHANGED <<heap, reg, stack, ret, lst>>
       ELSE LET l == find_or_create(heap, reg, <<lst.stuff[1][lst.i]>>, RootId, "Dir")
            IN IF lst.i > Len(lst.stuff[2])
               THEN /\ out' = Fault
                    /\ pc' = "done"
                    /\ heap' = l.h
                    /\ reg' = l.rg
                    /\ UNCHANGED <<stack, ret, lst>>
               ELSE LET r == find_or_create(l.h, l.rg, <<lst.stuff[2][lst.i]>>, RootId, "Dir")
                        pair == <<l.id, r.id>>
                    IN IF InitExits(cfg.ignores, r.h, pair)
                       THEN /\ out' = SystemExit
                            /\ pc' = "done"
                            /\ heap' = r.h
                            /\ reg' = r.rg
                            /\ UNCHANGED <<stack, ret, lst>>
                       ELSE /\ Push(stack, pair, r.h, r.rg, Inherit(cfg))
                            /\ lst' = [lst EXCEPT !.pair = pair]
                            /\ UNCHANGED <<out, pc>>
    /\ UNCHANGED <<fs, cfg, top, change, done, run, prev>>

(* the loop body of ComparisonList.cmp after comparison.cmp() returned c *)
ListReturn ==
    /\ pc = "list"
    /\ stack = <<>>
    /\ ret \in Verdicts
    /\ heap' = ResetPair(heap, lst.pair)
    /\ IF ret = Different /\ cfg.exit_asap
       THEN /\ out' = Different
            /\ pc' = "done"
            /\ lst' = [lst EXCEPT !.result = Different]
            /\ ret' = ret
       ELSE /\ lst' = [lst EXCEPT !.result = IF ret = Different THEN Different ELSE @,
                                  !.i = @ + 1]
            /\ ret' = NoRet
            /\ UNCHANGED <<out, pc>>
    /\ UNCHANGED <<fs, cfg, top, change, reg, stack, done, run, prev>>

(* a list that forgets what its comparisons returned *)
ListFinishSame ==
    /\ pc = "list"
    /\ stack = <<>>
    /\ ret = NoRet
    /\ lst.i > Longest(lst.stuff)
    /\ out' = Same
    /\ pc' = "done"
    /\ UNCHANGED <<fs, cfg, top, change, heap, reg, stack, ret, done, run, prev, lst>>

(* the loop of ComparisonList.cmp is over *)
ListFinish ==
    /\ pc = "list"
    /\ stack = <<>>
    /\ ret = NoRet
    /\ lst.i > Longest(lst.stuff)
    /\ out' = lst.result
    /\ pc' = "done"
    /\ UNCHANGED <<fs, cfg, top, change, heap, reg, stack, ret, done, run, prev, lst>>

(***************************************************************************)
(* The caller compares again with the sides exchanged, after Items.reset() *)
(* as the test fixtures do between comparisons.  Items.reset() empties the *)
(* registry; the Items constructed so far stay where they are.             *)
(***************************************************************************)
Swapped ==
    /\ pc = "done"
    /\ run < MaxRuns
    /\ top.mode = "single"
    /\ top.l # top.r
    /\ top' = [top EXCEPT !.l = top.r, !.r = top.l]
    /\ heap' = heap
    /\ reg' = <<>>
    /\ stack' = <<>>
    /\ ret' = NoRet
    /\ out' = NoRet
    /\ done' = <<>>
    /\ pc' = "new"
    /\ run' = run + 1
    /\ prev' = out
    /\ change' = "sides"
    /\ UNCHANGED <<fs, cfg, lst>>

(***************************************************************************)
(* The caller compares the same two trees again, this time with exit_asap  *)
(* set, after Items.reset().                                               *)
(***************************************************************************)
ExitAsapSet ==
    /\ pc = "done"
    /\ run < MaxRuns
    /\ top.mode = "single"
    /\ ~cfg.exit_asap
    /\ cfg' = [cfg EXCEPT !.exit_asap = TRUE]
    /\ heap' = heap
    /\ reg' = <<>>
    /\ stack' = <<>>
    /\ ret' = NoRet
    /\ out' = NoRet
    /\ done' = <<>>
    /\ pc' = "new"
    /\ run' = run + 1
    /\ prev' = out
    /\ change' = "exit_asap"
    /\ UNCHANGED <<fs, top, lst>>

(***************************************************************************)
(* The caller of a ComparisonList of one name a side compares the two      *)
(* names again with a Comparison of the same keyword arguments, after      *)
(* Items.reset().                                                          *)
(***************************************************************************)
AsComparison ==
    /\ pc = "done"
    /\ run < MaxRuns
    /\ top.mode = "list"
    /\ Len(top.l) = 1
    /\ Len(top.r) = 1
    /\ top' = Single(top.l[1], top.r[1])
    /\ heap' = heap
    /\ reg' = <<>>
    /\ stack' = <<>>
    /\ ret' = NoRet
    /\ out' = NoRet
    /\ done' = <<>>
    /\ pc' = "new"
    /\ run' = run + 1
    /\ prev' = out
    /\ change' = "comparison"
    /\ lst' = NoList
    /\ UNCHANGED <<fs, cfg>>

(***************************************************************************)
(* The caller drops one name with Items.delete(name) and runs the same     *)
(* ComparisonList again.  The registry holds the names of the lists only:  *)
(* no Item of a member is left behind with the dropped Item as its parent. *)
(***************************************************************************)
Deleted ==
    /\ pc = "done"
    /\ run < MaxRuns
    /\ top.mode = "list"
    /\ \A m \in DOMAIN reg : Len(m) = 1
    /\ \E name \in DOMAIN reg :
          reg' = [m \in DOMAIN reg \ {name} |-> reg[m]]
    /\ stack' = <<>>
    /\ ret' = NoRet
    /\ out' = NoRet
    /\ done' = <<>>
    /\ pc' = "new"
    /\ run' = run + 1
    /\ prev' = out
    /\ change' = "delete"
    /\ lst' = NoList
    /\ UNCHANGED <<fs, cfg, top, heap>>

Next ==
    \/ Start
    \/ NoSuchFileComparator
    \/ InodeComparator
    \/ EmptyFileComparator
    \/ BitwiseComparator
    \/ DateBlotBitwiseComparator
    \/ SymlinkComparator
    \/ FailComparator
    \/ ArMemberMetadataComparator
    \/ CpioMemberMetadataComparator
    \/ TarMemberMetadataComparator
    \/ DirComparator
    \/ ArComparator
    \/ CpioComparator
    \/ TarComparator
    \/ ZipComparator
    \/ InnerJoinCall
    \/ InnerJoinReturn
    \/ BoxReturn
    \/ GzipComparator
    \/ EncoderReturn
    \/ RaiseIndeterminate
    \/ RaiseFault
    \/ ListStart
    \/ ListCall
    \/ ListReturn
    \/ ListFinish
    \/ Swapped
    \/ ExitAsapSet
    \/ AsComparison
    \/ Deleted

Spec == Init /\ [][Next]_vars

(* the steps of the program: Comparison.cmp, ComparisonList.cmp and what *)
(* they call                                                             *)
Cmp ==
    \/ Start
    \/ NoSuchFileComparator
    \/ InodeComparator
    \/ EmptyFileComparator
    \/ BitwiseComparator
    \/ DateBlotBitwiseComparator
    \/ SymlinkComparator
    \/ FailComparator
    \/ ArMemberMetadataComparator
    \/ CpioMemberMetadataComparator
    \/ TarMemberMetadataComparator
    \/ DirComparator
    \/ ArComparator
    \/ CpioComparator
    \/ TarComparator
    \/ ZipComparator
    \/ InnerJoinCall
    \/ InnerJoinReturn
    \/ BoxReturn
    \/ GzipComparator
    \/ EncoderReturn
    \/ RaiseIndeterminate
    \/ RaiseFault
    \/ ListStart
    \/ ListCall
    \/ ListReturn
    \/ ListFinish

LiveInit == Init /\ \E pr \in LivePairs : fs = World(pr)

(* the interpreter runs a sequential program: a step that can be taken is *)
(* taken; nothing is assumed of the caller, who may stop between calls    *)
LiveSpec == LiveInit /\ [][Next]_vars /\ WF_vars(Cmp)

(***************************************************************************)
(* Properties.                                                             *)
(***************************************************************************)
Finished == {done[x] : x \in 1..Len(done)}

Last(sq) == sq[Len(sq)]

(* the turns of a loop visit the chain in order, one comparator per turn *)
InChainOrder(tried) == \A x \in 1..Len(tried) : tried[x].i = x /\ x <= Len(Chain)

(* cmp is called exactly where _applies holds on both items *)
CalledWhereApplies(tried) ==
    \A x \in 1..Len(tried) :
        tried[x].res # "raised" => (tried[x].applied <=> tried[x].each = <<TRUE, TRUE>>)

(* every turn among the first n ended without a verdict *)
NoVerdictIn(tried, n) ==
    \A x \in 1..n : tried[x].applied => tried[x].res = Falsy

(* C1: Comparison.cmp tries the comparators strictly in chain order: cmp is *)
(* called only on a comparator whose _applies holds on both items and only  *)
(* after every earlier applicable comparator returned a falsy result; the   *)
(* first Same or Different is what Comparison.cmp returns, and no later     *)
(* comparator is consulted.                                                 *)
ChainOrder ==
    /\ \A e \in Finished :
          /\ InChainOrder(e.tried)
          /\ CalledWhereApplies(e.tried)
          /\ NoVerdictIn(e.tried, Len(e.tried) - 1)
          /\ e.out \in Verdicts =>
                (e.tried # <<>> /\ Last(e.tried).applied /\ Last(e.tried).res = e.out)
          /\ (e.tried # <<>> /\ Last(e.tried).res \in Verdicts) => e.out = Last(e.tried).res
    /\ \A d \in 1..Len(stack) :
          /\ InChainOrder(stack[d].tried)
          /\ CalledWhereApplies(stack[d].tried)
          /\ NoVerdictIn(stack[d].tried, Len(stack[d].tried))
          /\ stack[d].idx = Len(stack[d].tried) + 1

(* a comparison that skipped a comparator, called one that returned a *)
(* falsy result, and ended with the verdict of a later one            *)
ChainOrderWitness ==
    \E e \in Finished :
        /\ e.out \in Verdicts
        /\ \E x \in 1..Len(e.tried) - 1 : e.tried[x].applied /\ e.tried[x].res = Falsy
        /\ \E x \in 1..Len(e.tried) - 1 : ~e.tried[x].applied
        /\ Last(e.tried).i < Len(Chain)

(* the loop went through the whole chain and no comparator that applied *)
(* returned Same or Different                                           *)
ChainExhausted(tried) ==
    /\ Len(tried) = Len(Chain)
    /\ \A x \in 1..Len(tried) : tried[x].res \in {Falsy, "skip"}

(* C2: when no comparator of the chain both applies to the pair and returns *)
(* Same or Different, Comparison.cmp raises IndeterminateResult, which      *)
(* reaches the caller of Comparison.cmp or ComparisonList.cmp; neither ever *)
(* returns a falsy value.                                                   *)
IndeterminateIsRaised ==
    /\ \A e \in Finished :
          /\ e.out \in Verdicts \cup Raised
          /\ ChainExhausted(e.tried) => e.out = IndeterminateResult
          /\ e.out = IndeterminateResult => (pc = "done" /\ out = IndeterminateResult)
    /\ ret \in Verdicts \cup {NoRet}
    /\ pc = "done" => out \in Verdicts \cup Raised
    /\ pc # "done" => out = NoRet

(* a ComparisonList whose pair went through a non-empty chain in which *)
(* comparators applied and none decided                                 *)
IndeterminateIsRaisedWitness ==
    /\ top.mode = "list"
    /\ pc = "done"
    /\ out = IndeterminateResult
    /\ \E e \in Finished :
          /\ ChainExhausted(e.tried)
          /\ \E x \in 1..Len(e.tried) : e.tried[x].applied


(* C3: with the default chain Comparison.cmp always ends in Same or       *)
(* Different, at the top level and in every descendant comparison (stated *)
(* for a caller that ignores nothing).                                    *)
DefaultChainDecides ==
    (Chain = default_comparators /\ cfg.ignores = <<>>) =>
        \A e \in Finished : e.out \in Verdicts

Symmetry ==
    ( /\ change = "sides"
      /\ pc = "done"
      /\ Chain = default_comparators
      /\ cfg.ignores = <<>>
      /\ prev \in Verdicts
      /\ out \in Verdicts ) => out = prev

(***************************************************************************)
(* What the file system itself holds, read without the Items, the handles  *)
(* and the joins.                                                          *)
(***************************************************************************)
FormatOf(jn) ==
    CASE jn = "{ar}" -> "ar"
      [] jn = "{cpio}" -> "cpio"
      [] jn = "{tar}" -> "tar"
      [] jn = "{zip}" -> "zip"
      [] jn = "{gzip}" -> "gzip"
      [] OTHER -> "none"

(* the node an extended name denotes; a member of an archive counts as a *)
(* regular file                                                          *)
RECURSIVE Denoted(_, _, _)
Denoted(node, name, i) ==
    IF i > Len(name) THEN node
    ELSE IF i = Len(name) THEN AbsentNode
    ELSE IF name[i] = "/"
         THEN IF node.t = "dir" /\ HasKey(node.ents, name[i + 1])
              THEN Denoted(Lookup(node.ents, name[i + 1]), name, i + 2)
              ELSE AbsentNode
         ELSE IF /\ node.t = "reg"
                 /\ node.c.fmt = FormatOf(name[i])
                 /\ HasKey(node.c.ents, name[i + 1])
              THEN Denoted(RegNode(Lookup(node.c.ents, name[i + 1]).c), name, i + 2)
              ELSE AbsentNode

NodeAt(name) == Denoted(fs[name[1]], name, 2)

(* the members a container holds, as [k, v] *)
MembersAt(name, box) ==
    IF box = "Dir" THEN NodeAt(name).ents ELSE NodeAt(name).c.ents

Ignored(name) == ignoring(cfg.ignores, name) # 0

(* some member under here that is not ignored has no namesake under there *)
LacksMate(here, there, box) ==
    \E x \in 1..Len(MembersAt(here, box)) :
        /\ ~Ignored(Join(box, here, MembersAt(here, box)[x].k))
        /\ ~HasKey(MembersAt(there, box), MembersAt(here, box)[x].k)

(* the finished comparisons in which an aggregator ran *)
Aggregates == {e \in Finished : e.box \in BoxComparators}

(* C6: in every aggregator compare, a member that is not ignored and has  *)
(* no namesake on the other side, left-only or right-only, makes the      *)
(* verdict Different.                                                     *)
OuterJoinCoverage ==
    \A e \in Aggregates :
        (e.out \in Verdicts /\ (LacksMate(e.l, e.r, e.box) \/ LacksMate(e.r, e.l, e.box)))
            => e.out = Different

(* the child of e on the left member nm was compared and found Different *)
ComparedDifferent(e, nm) ==
    \E x \in 1..Len(e.kids) : e.spooled[x] = nm /\ e.kids[x] = Different

(* the two containers of e differ in ignored members only: every member   *)
(* of the left side is ignored, or has a namesake that equals it and was  *)
(* not found Different; every member of the right side has a namesake or  *)
(* is ignored                                                             *)
DiffersWhereIgnored(e) ==
    /\ \A x \in 1..Len(MembersAt(e.l, e.box)) :
          LET m == MembersAt(e.l, e.box)[x]
          IN \/ Ignored(Join(e.box, e.l, m.k))
             \/ /\ HasKey(MembersAt(e.r, e.box), m.k)
                /\ Lookup(MembersAt(e.r, e.box), m.k) = m.v
                /\ ~ComparedDifferent(e, Join(e.box, e.l, m.k))
    /\ \A x \in 1..Len(MembersAt(e.r, e.box)) :
          LET m == MembersAt(e.r, e.box)[x]
          IN HasKey(MembersAt(e.l, e.box), m.k) \/ Ignored(Join(e.box, e.r, m.k))

(* the attributes of the containers themselves that the aggregator *)
(* compares: the archive comment of a zip file                     *)
SameComment(e) ==
    e.box = "Zip" => NodeAt(e.l).c.comment = NodeAt(e.r).c.comment

AllChildrenSame(e) ==
    /\ Len(e.kids) = Len(e.spooled)
    /\ \A x \in 1..Len(e.kids) : e.kids[x] = Same

ExitAsap ==
    \A e \in Aggregates :
        e.out \in Verdicts =>
            /\ e.called = Len(e.kids)
            /\ cfg.exit_asap =>
                  /\ e.unmated => (e.called = 0 /\ e.out = Different)
                  /\ \A x \in 1..Len(e.kids) :
                        e.kids[x] = Different => (x = Len(e.kids) /\ e.out = Different)
            /\ ~cfg.exit_asap => e.called = Len(e.spooled)

(* with exit_asap set, a Different child was the last one compared and a *)
(* spooled child after it never was                                      *)
ExitAsapWitness ==
    \E e \in Aggregates :
        /\ cfg.exit_asap
        /\ e.out = Different
        /\ e.kids # <<>>
        /\ Last(e.kids) = Different
        /\ Len(e.kids) < Len(e.spooled)

IsPrefix(short, long) ==
    /\ Len(short) < Len(long)
    /\ SubSeq(long, 1, Len(short)) = short

(* C10 as stated: an aggregate with an indeterminate child raises         *)
(* IndeterminateResult whether exit_asap is set or not: a comparison that *)
(* raises it with exit_asap unset raises it with exit_asap set as well.   *)
ExitAsapKeepsIndeterminate ==
    (change = "exit_asap" /\ pc = "done" /\ prev = IndeterminateResult)
        => out = IndeterminateResult

(* C10: when a child comparison that is run is indeterminate, every       *)
(* aggregate around it raises IndeterminateResult, whether exit_asap is   *)
(* set or not; with exit_asap set, a comparison that would raise it       *)
(* either raises it or returns Different, from an aggregate that returned *)
(* before it ran all its children.                                        *)
IndeterminateChildRaises ==
    /\ \A c \in Finished :
          ChainExhausted(c.tried) =>
              \A e \in Finished : IsPrefix(e.l, c.l) => e.out = IndeterminateResult
    /\ (change = "exit_asap" /\ pc = "done" /\ prev = IndeterminateResult) =>
          \/ out = IndeterminateResult
          \/ /\ out = Different
             /\ \E e \in Aggregates :
                   /\ e.out = Different
                   /\ e.unmated \/ Len(e.kids) < Len(e.spooled)

(* exit_asap is set, an aggregate compared a child that returned a verdict *)
(* and then one that was indeterminate, and IndeterminateResult reached    *)
(* the caller                                                              *)
IndeterminateChildRaisesWitness ==
    /\ cfg.exit_asap
    /\ pc = "done"
    /\ out = IndeterminateResult
    /\ \E e \in Aggregates :
          /\ e.out = IndeterminateResult
          /\ e.kids # <<>>
          /\ \E c \in Finished : IsPrefix(e.l, c.l) /\ ChainExhausted(c.tried)

(* the finished comparisons in which the cmp of an archive aggregator ran *)
Archives == {e \in Finished : e.box \in ArchiveBoxes}

(* C11: for every aggregator compare of ar, cpio, tar and zip, each archive *)
(* session that was opened is closed exactly once on every exit path: a     *)
(* return of Same or Different, an early return under exit_asap, an         *)
(* IndeterminateResult raised by a child, a fault inside the compare, and a *)
(* second side that fails to open after the first was opened.               *)
ScopedRelease ==
    \A e \in Archives : e.shut = e.open

(* every registered name is bound to an Item of that name *)
OneItemPerName ==
    \A n \in DOMAIN reg : reg[n] \in 1..Len(heap) /\ heap[reg[n]].name = n

(* what one step does to the registry: a name that stays registered stays *)
(* bound to the same Item, whose name and parent are those it was made    *)
(* with; a name that is newly bound is bound to an Item made in this      *)
(* step; names leave the registry only when the caller resets it or       *)
(* deletes them                                                           *)
InterningStep ==
    /\ \A n \in DOMAIN reg \cap DOMAIN reg' : reg'[n] = reg[n]
    /\ \A n \in DOMAIN reg' \ DOMAIN reg :
          /\ reg'[n] > Len(heap)
          /\ heap'[reg'[n]].name = n
          /\ heap'[reg'[n]].session = <<>>
    /\ \A i \in 1..Len(heap) :
          /\ i <= Len(heap')
          /\ heap'[i].name = heap[i].name
          /\ heap'[i].parent = heap[i].parent
    /\ DOMAIN reg \ DOMAIN reg' # {} => (pc = "done" /\ pc' = "new")

(* C12: between two calls with no Items.reset() or Items.delete(n) between  *)
(* them, Items.find_or_create(n, ...) returns the identical Item whatever   *)
(* parent and box are passed, so the registry never holds two Items for one *)
(* extended name; after reset() or delete(n) the next find_or_create(n)     *)
(* returns a fresh Item.                                                    *)
IdentityInterning == [](OneItemPerName) /\ [][InterningStep]_vars

(* a ComparisonList ran again after the caller deleted one of its names: *)
(* that name is bound to a new Item while the old one still is on the    *)
(* heap, and another name is bound to the only Item ever made for it     *)
IdentityInterningWitness ==
    /\ change = "delete"
    /\ pc = "done"
    /\ \E n \in DOMAIN reg : \E i \in 1..Len(heap) : i < reg[n] /\ heap[i].name = n
    /\ \E m \in DOMAIN reg : \A i \in 1..Len(heap) : heap[i].name = m => i = reg[m]

(* the Comparisons that ComparisonList.cmp itself ran *)
PerIndex == {x \in 1..Len(done) : done[x].depth = 1}

(* C13: ComparisonList.cmp returns Different at once, running no Comparison *)
(* and raising nothing, whenever its two filtered sequences differ in       *)
(* length, whatever exit_asap is; when the lengths are equal it runs one    *)
(* Comparison per index.                                                    *)
UnequalListsDiffer ==
    (top.mode = "list" /\ pc = "done") =>
        IF Len(lst.stuff[1]) # Len(lst.stuff[2])
        THEN out = Different /\ done = <<>>
        ELSE (out = Same \/ (out = Different /\ ~cfg.exit_asap)) =>
                Cardinality(PerIndex) = Len(lst.stuff[1])

(* C14: for two sequences of one name each, neither name ignored,          *)
(* ComparisonList([[a], [b]]).cmp() ends as Comparison(a, b).cmp() with    *)
(* the same comparators, ignores, exit_asap and ignore_ownerships ends:    *)
(* with the same verdict, or with the same exception.                      *)
ListOfOne ==
    ( /\ change = "comparison"
      /\ pc = "done"
      /\ ~Ignored(top.l)
      /\ ~Ignored(top.r) ) => out = prev

(* a list of one directory a side and the Comparison of the two *)
(* directories both found a difference in a member               *)
ListOfOneWitness ==
    /\ change = "comparison"
    /\ pc = "done"
    /\ out = Different
    /\ prev = Different
    /\ \E e \in Aggregates : e.depth = 1 /\ Different \in {e.kids[x] : x \in 1..Len(e.kids)}

(* the name the right-hand mate of member key of e goes by *)
RightName(e, key) == Join(e.box, e.r, key)

(* a member of the left container of e that is not ignored and has a *)
(* namesake whose extended name is ignored                           *)
MateIgnored(e) ==
    \E x \in 1..Len(MembersAt(e.l, e.box)) :
        LET m == MembersAt(e.l, e.box)[x]
        IN /\ ~Ignored(Join(e.box, e.l, m.k))
           /\ HasKey(MembersAt(e.r, e.box), m.k)
           /\ Ignored(RightName(e, m.k))

(* C15: creating a Comparison in which the name of either item matches a  *)
(* pattern of the ignore set aborts the run (SystemExit) before any       *)
(* comparator is applied to the pair: no comparison ever runs on such a   *)
(* pair, at the top or for a spooled child.                               *)
IgnoredAtTop ==
    /\ \A e \in Finished : ~Ignored(e.l) /\ ~Ignored(e.r)
    /\ \A d \in 1..Len(stack) :
          ~Ignored(heap[stack[d].pair[1]].name) /\ ~Ignored(heap[stack[d].pair[2]].name)
    /\ (top.mode = "single" /\ pc # "new" /\ (Ignored(top.l) \/ Ignored(top.r))) =>
          (pc = "done" /\ out = SystemExit /\ done = <<>>)
    /\ \A e \in Aggregates :
          (MateIgnored(e) /\ SameComment(e)) => e.out = SystemExit

(* a Comparison of a name that is ignored: the run was aborted and no *)
(* comparison was run                                                 *)
IgnoredAtTopWitness ==
    /\ top.mode = "single"
    /\ pc = "done"
    /\ Ignored(top.r)
    /\ ~Ignored(top.l)
    /\ out = SystemExit
    /\ done = <<>>

(* whether an Item exists: a path of the file system exists when it      *)
(* resolves to a file or a directory, a member of an archive when the    *)
(* session of its parent lists it, the payload of an encoded file always *)
ItemExists(i) ==
    CASE ParentBox(heap, i) = "Dir" -> Resolves(NodeAt(heap[i].name))
      [] ParentBox(heap, i) = "Gzip" -> TRUE
      [] OTHER -> /\ heap[heap[i].parent].session # <<>>
                  /\ HasKey(heap[heap[i].parent].session[1].ents, Last(heap[i].name))

(* what NoSuchFileComparator is to answer for the pair of e *)
ExistVerdict(e) ==
    IF ItemExists(e.pair[1]) # ItemExists(e.pair[2]) THEN Different
    ELSE IF ItemExists(e.pair[1]) THEN Falsy
    ELSE Same

ResetStep ==
    (Len(stack') = Len(stack) - 1 /\ ret' \in Verdicts) =>
        /\ heap'[Top.pair[1]].content = <<>>
        /\ heap'[Top.pair[2]].content = <<>>
        /\ \A d \in 1..Len(stack') : \A k \in 1..2 :
              heap'[stack'[d].pair[k]].content = heap[stack[d].pair[k]].content

(* C17: whenever Comparison.cmp returns Same or Different, the content     *)
(* cache of both items of its pair is empty at the moment of return, while *)
(* the content of the enclosing containers is untouched until their own    *)
(* comparison finishes.                                                    *)
ResetAtReturn == [][ResetStep]_vars

(* the comparison of two members has just returned Different after it read *)
(* both contents: they are dropped, and the container around still holds   *)
(* its own                                                                 *)
ResetAtReturnWitness ==
    /\ ret = Different
    /\ stack # <<>>
    /\ heap[Top.pair[1]].content # <<>>
    /\ heap[Top.pair[2]].content # <<>>
    /\ done # <<>>
    /\ Chain[Len(Last(done).tried)] \in {"Bitwise", "Fail"}
    /\ heap[Last(done).pair[1]].content = <<>>
    /\ heap[Last(done).pair[2]].content = <<>>

(* the comparators whose _applies reads the stat of an item *)
StatReaders == {"EmptyFile", "Dir", "Bitwise", "Symlink", "DateBlotBitwise"}

(* a path of the file system, not a member of an archive *)
InFileSystem(name) == \A x \in 1..Len(name) : FormatOf(name[x]) = "none"

(* C18: reading stat on an Item whose path does not exist does not fault, *)
(* absent is recorded, and exists returns false for that Item.            *)
AbsentStatIsQuiet ==
    \A e \in Finished : \A x \in 1..Len(e.tried) :
        ( /\ InFileSystem(e.l)
          /\ InFileSystem(e.r)
          /\ NodeAt(e.l).t = "absent" \/ NodeAt(e.r).t = "absent" ) =>
            /\ Chain[x] \in StatReaders => e.tried[x].res # "raised"
            /\ Chain[x] = "NoSuchFile" => e.tried[x].res \in Verdicts

(* C19: when an archive fails its self-test or cannot be opened during an *)
(* aggregator compare, the comparison yields Different: the failure is    *)
(* neither propagated as an exception nor turned into an Indeterminate.   *)
BadArchiveDiffers ==
    \A e \in Archives :
        (NodeAt(e.l).c.bad \/ NodeAt(e.r).c.bad) => e.out = Different

(* C20: when the cpio aggregator mounts a pair, each session is opened on *)
(* the content of its own item, so that the key set and the members of    *)
(* the right side are those of the right archive.                         *)
CpioRightSession ==
    \A i \in 1..Len(heap) :
        (heap[i].box = "Cpio" /\ heap[i].session # <<>>) =>
            heap[i].session[1] = NodeAt(heap[i].name).c

(* C21: a pair enters the children of an aggregator only if neither the   *)
(* expanded left name nor the right-hand name the join built for it       *)
(* matches an ignore pattern: no spooled child has an item whose name is  *)
(* ignored.                                                               *)
SpooledUnignored ==
    /\ \A d \in 1..Len(stack) : \A x \in 1..Len(stack[d].children) :
          /\ ~Ignored(heap[stack[d].children[x][1]].name)
          /\ ~Ignored(heap[stack[d].children[x][2]].name)
    /\ \A e \in Finished : \A x \in 1..Len(e.spooled) :
          /\ ~Ignored(e.spooled[x])
          /\ ~Ignored(RightName(e, Last(e.spooled[x])))

(* an aggregate under a non-empty ignore set spooled a member and left *)
(* out another one, whose name is ignored                              *)
SpooledUnignoredWitness ==
    \E e \in Aggregates :
        /\ e.out \in Verdicts
        /\ e.spooled # <<>>
        /\ \E x \in 1..Len(MembersAt(e.l, e.box)) :
              /\ Ignored(Join(e.box, e.l, MembersAt(e.l, e.box)[x].k))
              /\ HasKey(MembersAt(e.r, e.box), MembersAt(e.l, e.box)[x].k)

(* the Item i is the one the registry holds for its name *)
Interned(i) == heap[i].name \in DOMAIN reg /\ reg[heap[i].name] = i

(* C22: every Item that is a side of a Comparison, at the top, spooled by  *)
(* an aggregator or made for the decoded member of a gzip file, is the     *)
(* Item the registry holds for its extended name.                          *)
SidesInterned ==
    \A d \in 1..Len(stack) : Interned(stack[d].pair[1]) /\ Interned(stack[d].pair[2])

(* what one step does to an Item that holds content: its file is not read *)
(* again, neither by member_content nor through a memory map              *)
ReadOnceStep ==
    \A i \in 1..Len(heap) :
        heap[i].content # <<>> =>
            /\ heap'[i].read_count = heap[i].read_count
            /\ heap'[i].maps = heap[i].maps

(* C23: between two resets of an Item its content is materialized at most *)
(* once: member_content is not called again and the cached payload is not *)
(* overwritten by a second read of the same file.                         *)
MaterializedOnce == [][ReadOnceStep]_vars

(* no step assigns another box to an Item that exists *)
BoxKeptStep == \A i \in 1..Len(heap) : heap'[i].box = heap[i].box

(* C24: the box of an Item is set once, before any member operation on the *)
(* Item, and no comparator assigns it again while the registry lives.      *)
BoxSetOnce == [][BoxKeptStep]_vars

(* both items of the pair are files of the file system and neither holds *)
(* content                                                               *)
Unread(pair) ==
    \A k \in 1..2 : ParentBox(heap, pair[k]) = "Dir" /\ heap[pair[k]].content = <<>>

(* BitwiseComparator.cmp is about to run on a pair whose sizes are equal *)
BitwiseGoesOn ==
    /\ At("Bitwise")
    /\ sizes(fs, heap, Top.pair).ok1
    /\ sizes(fs, heap, Top.pair).ok2
    /\ sizes(fs, heap, Top.pair).v1 = sizes(fs, heap, Top.pair).v2

(* the step of BitwiseComparator.cmp maps the files of the pair exactly *)
(* when the pair is unread                                             *)
BitwiseStep ==
    BitwiseGoesOn =>
        \A k \in 1..2 :
            heap'[Top.pair[k]].maps > heap[Top.pair[k]].maps <=> Unread(Top.pair)

(* C25: BitwiseComparator compares through memory maps exactly when both   *)
(* items are files of the file system and neither holds materialized       *)
(* content; in every other case it compares the content payloads.          *)
MappedWhenUnread == [][BitwiseStep]_vars

(* the keys of the left container of activation f, in the order its      *)
(* adapter lists them, less those whose name is ignored and those the    *)
(* adapter of the right container does not list                          *)
SpoolKeys(f) ==
    SelectSeq(box_keys(fs, heap, f.pair[1], f.box).v,
              LAMBDA k : /\ ~Ignored(Join(f.box, heap[f.pair[1]].name, k))
                         /\ InKeys(<<k>>, box_keys(fs, heap, f.pair[2], f.box).v))

(* the children of f are the pairs of SpoolKeys(f), in that order *)
SpooledInKeyOrder(f) ==
    /\ Len(f.children) = Len(SpoolKeys(f))
    /\ \A x \in 1..Len(f.children) :
          /\ heap[f.children[x][1]].name = Join(f.box, heap[f.pair[1]].name, SpoolKeys(f)[x])
          /\ heap[f.children[x][2]].name = Join(f.box, heap[f.pair[2]].name, SpoolKeys(f)[x])

(* the comparisons that ran directly under the finished aggregate e, in *)
(* the order they finished                                              *)
RanUnder(e) == SelectSeq(done, LAMBDA c : c.depth = e.depth + 1 /\ IsPrefix(e.l, c.l))

(* C26: within one aggregator compare the children are spooled in the    *)
(* order in which the adapter of the left item lists its keys, unsorted   *)
(* and without duplicates; the spool is complete before the first child   *)
(* is compared, and the children are compared in spool order.             *)
SpoolOrder ==
    /\ \A d \in 1..Len(stack) :
          stack[d].phase = "inner" =>
              /\ SpooledInKeyOrder(stack[d])
              /\ stack[d].called <= Len(stack[d].children)
              /\ d < Len(stack) => stack[d + 1].pair = stack[d].children[stack[d].called]
    /\ \A e \in Aggregates :
          /\ e.called <= Len(e.spooled)
          /\ Len(RanUnder(e)) = e.called
          /\ \A x \in 1..e.called : RanUnder(e)[x].l = e.spooled[x]

(* an aggregate whose left side lists "b" before "a" spooled the two in *)
(* that order and compared both                                          *)
SpoolOrderWitness ==
    \E e \in Aggregates :
        /\ Len(e.spooled) = 2
        /\ Last(e.spooled[1]) = "b"
        /\ Last(e.spooled[2]) = "a"
        /\ e.called = 2
        /\ Len(e.kids) = 2

(* C27: when Comparison.cmp returns a verdict with exit_asap unset, so    *)
(* that no descendant comparison is indeterminate and nothing faults, it  *)
(* returns the same verdict with exit_asap set: exit_asap changes how     *)
(* many siblings are compared, never the verdict.                         *)
ExitAsapSameVerdict ==
    (change = "exit_asap" /\ pc = "done" /\ prev \in Verdicts) => out = prev

(* both calls returned Different, and with exit_asap set an aggregate *)
(* left a spooled child uncompared                                    *)
ExitAsapSameVerdictWitness ==
    /\ change = "exit_asap"
    /\ pc = "done"
    /\ prev = Different
    /\ out = Different
    /\ \E e \in Aggregates : Len(e.kids) < Len(e.spooled)

(* the members of the container here that are not ignored and have no *)
(* namesake in the container there, by their extended names           *)
Unmated(here, there, box) ==
    {Join(box, here, MembersAt(here, box)[x].k) : x \in 1..Len(MembersAt(here, box))}
        \ ( {n \in {Join(box, here, MembersAt(here, box)[x].k) :
                       x \in 1..Len(MembersAt(here, box))} : Ignored(n)}
             \cup {Join(box, here, MembersAt(there, box)[x].k) :
                       x \in 1..Len(MembersAt(there, box))} )

(* C28: with exit_asap unset, an aggregator compare that returns a verdict *)
(* has logged a no-mate difference for every member of either side that is *)
(* not ignored and has no mate: the right outer join is run even when the  *)
(* left one found an unmated member.                                       *)
BothJoinsRun ==
    \A e \in Aggregates :
        (~cfg.exit_asap /\ e.out \in Verdicts /\ SameComment(e)) =>
            /\ Unmated(e.l, e.r, e.box) \subseteq e.nomate
            /\ Unmated(e.r, e.l, e.box) \subseteq e.nomate

(* the keyword arguments of the maker of the activation at depth d: the *)
(* caller's for the outermost one, those of the activation below for    *)
(* the others                                                           *)
MakerKw(d) == IF d = 1 THEN cfg ELSE stack[d - 1].kw

(* C29: every Comparison, made by an outer join, by a decoder or per index *)
(* by a ComparisonList, runs with the comparator chain, ignore patterns,   *)
(* exit_asap and ignore_ownerships of the comparison that made it, hence   *)
(* with the caller's at every depth.                                       *)
SettingsInherited ==
    \A d \in 1..Len(stack) :
        /\ stack[d].kw = MakerKw(d)
        /\ stack[d].kw = cfg

(* a list made with exit_asap and ignore_ownerships set, a shortened chain *)
(* and an ignore pattern compares a member of the archive inside a         *)
(* compressed file: a child of a decoder child of a child of the list      *)
SettingsInheritedWitness ==
    /\ top.mode = "list"
    /\ Len(stack) = 3
    /\ stack[1].box = "Gzip"
    /\ stack[2].phase = "inner"
    /\ stack[3].kw.exit_asap
    /\ stack[3].kw.comparators # default_comparators

(* C30: Comparison.cmp terminates on every finite pair of trees: the     *)
(* activations never nest deeper than the trees do, and every call comes *)
(* to its end, by a verdict or by raising.                               *)
Terminates == [](Len(stack) < MaxDepth) /\ ((pc # "done") ~> (pc = "done"))

(* two directories that each hold a symbolic link to the left one, hence *)
(* the left one a link to itself, were compared: the links were compared *)
(* as links and the call returned Same                                   *)
TerminatesWitness ==
    /\ pc = "done"
    /\ fs["L"] = Looped
    /\ fs["R"] = Looped
    /\ out = Same
    /\ \E e \in Finished :
          /\ e.l = <<"L", "/", "a">>
          /\ e.out = Same
          /\ cfg.comparators[Last(e.tried).i] = "Symlink"

====
